---- MODULE Spec2Model ----
(***************************************************************************)
(* A model of object_store/src/azure/mod.rs: the MicrosoftAzureBuilder     *)
(* (setters, key-value options, URL parsing, credential selection in       *)
(* build), the AzureConfigKey alias resolution and the block-based         *)
(* multipart upload (put_multipart_part, complete, abort_multipart).       *)
(*                                                                         *)
(* Rust strings are TLA+ strings; a character is a string of length one.   *)
(* Option<T> is a sequence of length at most one, Result<T, E> a record    *)
(* with a tag.                                                             *)
(***************************************************************************)
EXTENDS Integers, Sequences, FiniteSets, TLC

VARIABLES
    pc,         \* which program is running and where it stands
    builder,    \* the MicrosoftAzureBuilder value being threaded through the calls
    result,     \* the value returned by the last fallible call (build, try_with_option(s)), if any
    set_after_url,  \* history: with_account, with_container_name or an account option ran after with_url
    calls,      \* number of setter calls made on the builder so far
    inflight,   \* multipart upload: the put_multipart_part calls awaiting their request
    blocks,     \* provider: the uploaded blocks of the blob, block id -> body
    requests,   \* provider: the requests received for the blob, in order of arrival
    completed_parts,    \* driver: the UploadPart values in the order they were produced
    blob,       \* provider: the block list committed for the blob, if any
    ret,        \* the last call that returned (on the upload, or a key-value option call) and what it returned
    aborted,    \* history: number of requests the provider had seen at the last abort_multipart
    writes,     \* history: the writes made to the fields of the builder, oldest first
    args        \* the arguments of the call under way in the single-call programs, if any

builderVars == <<builder, result, set_after_url, calls, writes, args>>
uploadVars == <<inflight, blocks, requests, completed_parts, blob, ret, aborted>>
vars == <<pc, builder, result, set_after_url, calls,
          inflight, blocks, requests, completed_parts, blob, ret, aborted, writes, args>>

---------------------------------------------------------------------------
(* Option and Result *)

None == <<>>
Some(x) == <<x>>
IsSome(o) == Len(o) = 1
IsNone(o) == Len(o) = 0
Unwrap(o) == o[1]
UnwrapOr(o, d) == IF IsSome(o) THEN o[1] ELSE d

Ok(v) == [tag |-> "Ok", val |-> v]
Err(e) == [tag |-> "Err", val |-> e]
IsOk(r) == r.tag = "Ok"
IsErr(r) == r.tag = "Err"

---------------------------------------------------------------------------
(* str helpers of the Rust standard library, on TLA+ strings *)

Char(s, i) == SubSeq(s, i, i)
Suffix(s, i) == SubSeq(s, i, Len(s))
Prefix(s, n) == SubSeq(s, 1, n)

Contains(s, c) == \E i \in 1..Len(s) : Char(s, i) = c

\* position of the first occurrence of the character c in s, 0 when absent
Find(s, c) ==
    IF Contains(s, c)
    THEN CHOOSE i \in 1..Len(s) :
            Char(s, i) = c /\ \A j \in 1..(i - 1) : Char(s, j) # c
    ELSE 0

\* position of the last occurrence of the character c in s, 0 when absent
RFind(s, c) ==
    IF Contains(s, c)
    THEN CHOOSE i \in 1..Len(s) :
            Char(s, i) = c /\ \A j \in (i + 1)..Len(s) : Char(s, j) # c
    ELSE 0

starts_with(s, p) == Len(s) >= Len(p) /\ Prefix(s, Len(p)) = p
ends_with(s, p) == Len(s) >= Len(p) /\ Suffix(s, Len(s) - Len(p) + 1) = p

strip_suffix(s, p) ==
    IF ends_with(s, p) THEN Some(Prefix(s, Len(s) - Len(p))) ELSE None

split_once(s, c) ==
    LET i == Find(s, c)
    IN  IF i = 0 THEN None ELSE Some(<<Prefix(s, i - 1), Suffix(s, i + 1)>>)

RECURSIVE trim_start_matches(_, _)
trim_start_matches(s, c) ==
    IF Len(s) > 0 /\ Char(s, 1) = c THEN trim_start_matches(Tail(s), c) ELSE s

\* char::is_whitespace, on the printable ASCII alphabet of the model
is_whitespace(c) == c = " "

RECURSIVE trim_start(_)
trim_start(s) ==
    IF Len(s) > 0 /\ is_whitespace(Char(s, 1)) THEN trim_start(Tail(s)) ELSE s

RECURSIVE trim_end(_)
trim_end(s) ==
    IF Len(s) > 0 /\ is_whitespace(Char(s, Len(s)))
    THEN trim_end(Prefix(s, Len(s) - 1))
    ELSE s

trim(s) == trim_end(trim_start(s))

\* str::split(c): the segments between the occurrences of c, in order
RECURSIVE split(_, _)
split(s, c) ==
    LET i == Find(s, c)
    IN  IF i = 0 THEN <<s>> ELSE <<Prefix(s, i - 1)>> \o split(Suffix(s, i + 1), c)

\* the printable ASCII characters, code 32 to 126, in code order; the grave
\* accent (code 96) cannot be written in a TLA+ string and no input of the
\* model contains it: its place is held by a second space, which Find skips
Ascii ==
    " !\"#$%&'()*+,-./0123456789:;<=>?@ABCDEFGHIJKLMNOPQRSTUVWXYZ[\\]^_ abcdefghijklmnopqrstuvwxyz{|}~"

AsciiCode(c) == 31 + Find(Ascii, c)
AsciiChar(n) == Char(Ascii, n - 31)

---------------------------------------------------------------------------
(* Program constants *)

EMULATOR_ACCOUNT == "devstoreaccount1"

EMULATOR_ACCOUNT_KEY ==
    "Eby8vdM02xNOcqFlqUwJPLlmEtlCDXJ1OUzFT50uSRZ6IFsuFq2UVErCz4I6tq/K1SZFPTOtr/KBHBeksoGMGw=="

\* store name carried by the errors converted into the crate-level Error
STORE == "MicrosoftAzure"

---------------------------------------------------------------------------
(* Errors *)

\* From<Error> for super::Error: an unknown configuration key keeps its own
\* variant and its key, every other error is boxed into Generic
ErrorFrom(e) ==
    IF e.kind = "UnknownConfigurationKey"
    THEN [kind |-> "UnknownConfigurationKey", store |-> STORE, key |-> e.key]
    ELSE [kind |-> "Generic", store |-> STORE, source |-> e]

\* the azure Error inside a crate-level error, whatever its wrapping
AzureKind(e) == IF e.kind = "Generic" THEN e.source.kind ELSE e.kind

---------------------------------------------------------------------------
(* AzureConfigKey *)

AzureConfigKey ==
    {"AccountName", "AccessKey", "ClientId", "ClientSecret", "AuthorityId",
     "SasKey", "Token", "UseEmulator"}

\* AsRef<str> for AzureConfigKey
as_ref(k) ==
    CASE k = "AccountName" -> "azure_storage_account_name"
      [] k = "AccessKey" -> "azure_storage_account_key"
      [] k = "ClientId" -> "azure_storage_client_id"
      [] k = "ClientSecret" -> "azure_storage_client_secret"
      [] k = "AuthorityId" -> "azure_storage_tenant_id"
      [] k = "SasKey" -> "azure_storage_sas_key"
      [] k = "Token" -> "azure_storage_token"
      [] k = "UseEmulator" -> "azure_storage_use_emulator"

\* FromStr for AzureConfigKey: the match arms in source order
from_str(s) ==
    CASE s \in {"azure_storage_account_key", "azure_storage_access_key",
                "azure_storage_master_key", "master_key", "account_key",
                "access_key"} -> Ok("AccessKey")
      [] s \in {"azure_storage_account_name", "account_name"} -> Ok("AccountName")
      [] s \in {"azure_storage_client_id", "azure_client_id", "client_id"} ->
            Ok("ClientId")
      [] s \in {"azure_storage_client_secret", "azure_client_secret",
                "client_secret"} -> Ok("ClientSecret")
      [] s \in {"azure_storage_tenant_id", "azure_storage_authority_id",
                "azure_tenant_id", "azure_authority_id", "tenant_id",
                "authority_id"} -> Ok("AuthorityId")
      [] s \in {"azure_storage_sas_key", "azure_storage_sas_token", "sas_key",
                "sas_token"} -> Ok("SasKey")
      [] s \in {"azure_storage_token", "bearer_token", "token"} -> Ok("Token")
      [] s \in {"azure_storage_use_emulator", "use_emulator"} -> Ok("UseEmulator")
      [] OTHER -> Err(ErrorFrom([kind |-> "UnknownConfigurationKey", key |-> s]))

\* crate::util::str_is_truthy
str_is_truthy(v) == v \in {"1", "true", "on", "yes", "y"}

---------------------------------------------------------------------------
(* split_sas *)

HexDigits == "0123456789ABCDEF"
HexLower == "0123456789abcdef"
IsHex(c) == Contains(HexDigits, c) \/ Contains(HexLower, c)
HexVal(c) == IF Contains(HexDigits, c) THEN Find(HexDigits, c) - 1 ELSE Find(HexLower, c) - 1

\* percent_encoding::percent_decode_str: the bytes of s, every %XY with two
\* hexadecimal digits replaced by the byte it denotes, any other % kept
RECURSIVE percent_decode_str(_)
percent_decode_str(s) ==
    IF Len(s) = 0 THEN <<>>
    ELSE IF Char(s, 1) = "%" /\ Len(s) >= 3 /\ IsHex(Char(s, 2)) /\ IsHex(Char(s, 3))
         THEN <<16 * HexVal(Char(s, 2)) + HexVal(Char(s, 3))>> \o percent_decode_str(Suffix(s, 4))
         ELSE <<AsciiCode(Char(s, 1))>> \o percent_decode_str(Tail(s))

RECURSIVE FromAscii(_)
FromAscii(bytes) ==
    IF Len(bytes) = 0 THEN "" ELSE AsciiChar(Head(bytes)) \o FromAscii(Tail(bytes))

\* PercentDecode::decode_utf8 on the bytes the model produces: printable ASCII
\* decodes to itself, a lone byte of 0x80 or more is not UTF-8
decode_utf8(bytes) ==
    IF \A i \in 1..Len(bytes) : bytes[i] < 128
    THEN Ok(FromAscii(bytes))
    ELSE Err([kind |-> "DecodeSasKey"])

\* pairs.push((k.into(), v.into())) in front of the pairs of the later segments
push_pair(kv, rest) == IF IsErr(rest) THEN rest ELSE Ok(<<kv>> \o rest.val)

RECURSIVE SasPairs_skipping(_)
\* a mutant of SasPairs: a segment without '=' is left out of the list
SasPairs_skipping(segments) ==
    IF Len(segments) = 0 THEN Ok(<<>>)
    ELSE IF IsNone(split_once(trim(Head(segments)), "="))
    THEN SasPairs_skipping(Tail(segments))
    ELSE push_pair(Unwrap(split_once(trim(Head(segments)), "=")),
                   SasPairs_skipping(Tail(segments)))

RECURSIVE SasPairs(_)
\* the for loop of split_sas over the non-blank segments
SasPairs(segments) ==
    IF Len(segments) = 0 THEN Ok(<<>>)
    ELSE IF IsNone(split_once(trim(Head(segments)), "="))
    THEN Err([kind |-> "MissingSasComponent"])
    ELSE push_pair(Unwrap(split_once(trim(Head(segments)), "=")), SasPairs(Tail(segments)))

\* split_sas once the string is decoded
split_sas_decoded(decoded) ==
    IF IsErr(decoded) THEN decoded
    ELSE SasPairs(SelectSeq(split(trim_start_matches(decoded.val, "?"), "&"),
                            LAMBDA seg : ~ (\A i \in 1..Len(seg) : is_whitespace(Char(seg, i)))))

split_sas(sas) == split_sas_decoded(decode_utf8(percent_decode_str(sas)))

---------------------------------------------------------------------------
(* Url::parse of the url crate, for URLs written in lower-case printable     *)
(* ASCII with no percent-escape, no query and no fragment                    *)

SpecialSchemes == {"http", "https", "ws", "wss", "ftp"}
SchemeChars == "abcdefghijklmnopqrstuvwxyz0123456789+-."
ForbiddenHostChars == {" ", "#", "%", "<", ">", "[", "\\", "]", "^", "|"}
Digits == "0123456789"

\* the host, once split from the port
Url_parse_host(scheme, username, host, port, path) ==
    IF \E n \in 1..Len(port) : ~ Contains(Digits, Char(port, n))
    THEN Err("InvalidPort")
    ELSE IF scheme \in SpecialSchemes /\ host = "" THEN Err("EmptyHost")
    ELSE IF \E n \in 1..Len(host) : Char(host, n) \in ForbiddenHostChars
    THEN Err("InvalidDomainCharacter")
    ELSE Ok([scheme |-> scheme, username |-> username,
             host |-> IF host = "" THEN None ELSE Some(host),
             path |-> path])

\* host and port, once split from the userinfo
Url_parse_hostport(scheme, userinfo, hostport, path) ==
    Url_parse_host(scheme,
                   IF Contains(userinfo, ":")
                   THEN Prefix(userinfo, Find(userinfo, ":") - 1)
                   ELSE userinfo,
                   IF Contains(hostport, ":")
                   THEN Prefix(hostport, Find(hostport, ":") - 1)
                   ELSE hostport,
                   IF Contains(hostport, ":")
                   THEN Suffix(hostport, Find(hostport, ":") + 1)
                   ELSE "",
                   path)

\* the authority, up to the first '/' of what follows the slashes
Url_parse_authority(scheme, authority, path) ==
    IF Contains(authority, "@")
    THEN Url_parse_hostport(scheme, Prefix(authority, RFind(authority, "@") - 1),
                            Suffix(authority, RFind(authority, "@") + 1), path)
    ELSE Url_parse_hostport(scheme, "", authority, path)

\* what follows "scheme:"
Url_parse_after_scheme(scheme, rest) ==
    IF scheme \notin SpecialSchemes /\ ~ starts_with(rest, "//")
    THEN Ok([scheme |-> scheme, username |-> "", host |-> None, path |-> rest])
    ELSE IF scheme \in SpecialSchemes
    THEN IF Contains(trim_start_matches(rest, "/"), "/")
         THEN Url_parse_authority(
                scheme,
                Prefix(trim_start_matches(rest, "/"),
                       Find(trim_start_matches(rest, "/"), "/") - 1),
                Suffix(trim_start_matches(rest, "/"),
                       Find(trim_start_matches(rest, "/"), "/")))
         ELSE Url_parse_authority(scheme, trim_start_matches(rest, "/"), "/")
    ELSE IF Contains(Suffix(rest, 3), "/")
         THEN Url_parse_authority(scheme,
                                  Prefix(Suffix(rest, 3), Find(Suffix(rest, 3), "/") - 1),
                                  Suffix(Suffix(rest, 3), Find(Suffix(rest, 3), "/")))
         ELSE Url_parse_authority(scheme, Suffix(rest, 3), "")

Url_parse(s) ==
    IF Find(s, ":") <= 1 \/ Contains(Digits \o "+-.", Char(s, 1))
       \/ \E n \in 1..(Find(s, ":") - 1) : ~ Contains(SchemeChars, Char(s, n))
    THEN Err("RelativeUrlWithoutBase")
    ELSE Url_parse_after_scheme(Prefix(s, Find(s, ":") - 1), Suffix(s, Find(s, ":") + 1))

---------------------------------------------------------------------------
(* MicrosoftAzureBuilder::parse_url *)

\* the validate closure: a name with a dot in it is rejected
\* a mutant of validate: a dotted name passes
validate_lenient(s, url) == Ok(s)

validate(s, url) ==
    IF Contains(s, ".")
    THEN Err(ErrorFrom([kind |-> "UrlNotRecognised", url |-> url]))
    ELSE Ok(s)

NotRecognised(url) == Err(ErrorFrom([kind |-> "UrlNotRecognised", url |-> url]))

\* Some(validate(name)?) stored as the container name
set_container(b, url, name) ==
    IF IsErr(validate(name, url)) THEN [b |-> b, r |-> validate(name, url)]
    ELSE [b |-> [b EXCEPT !.container_name = Some(validate(name, url).val)], r |-> Ok(<<>>)]

\* Some(validate(name)?) stored as the account name
set_account(b, url, name) ==
    IF IsErr(validate(name, url)) THEN [b |-> b, r |-> validate(name, url)]
    ELSE [b |-> [b EXCEPT !.account_name = Some(validate(name, url).val)], r |-> Ok(<<>>)]

\* a mutant of set_container_then_account: the two names change places
set_container_then_account_swapped(b, url, username, a) ==
    IF IsErr(validate(username, url)) THEN [b |-> b, r |-> validate(username, url)]
    ELSE set_account([b EXCEPT !.container_name = Some(validate(a, url).val)], url, username)

\* abfs[s]://<file_system>@<account_name>.dfs.core.windows.net: the container
\* is stored before the account is validated
set_container_then_account(b, url, username, a) ==
    IF IsErr(validate(username, url)) THEN [b |-> b, r |-> validate(username, url)]
    ELSE set_account([b EXCEPT !.container_name = Some(validate(username, url).val)], url, a)

\* a mutant of parse_url_scheme: an https URL names a container as well
parse_url_scheme_naming(b, url, scheme, username, host) ==
    IF scheme \in {"az", "adl", "azure"} THEN set_container(b, url, host)
    ELSE IF scheme \in {"abfs", "abfss"}
    THEN IF username = "" THEN set_container(b, url, host)
         ELSE IF IsSome(strip_suffix(host, ".dfs.core.windows.net"))
         THEN set_container_then_account(b, url, username,
                                         Unwrap(strip_suffix(host, ".dfs.core.windows.net")))
         ELSE [b |-> b, r |-> NotRecognised(url)]
    ELSE IF scheme = "https"
    THEN IF IsSome(split_once(host, "."))
            /\ Unwrap(split_once(host, "."))[2]
                    \in {"dfs.core.windows.net", "blob.core.windows.net"}
         THEN set_container_then_account(b, url, "default", Unwrap(split_once(host, "."))[1])
         ELSE [b |-> b, r |-> NotRecognised(url)]
    ELSE [b |-> b, r |-> Err(ErrorFrom([kind |-> "UnknownUrlScheme", scheme |-> scheme]))]

\* the match on the scheme
parse_url_scheme(b, url, scheme, username, host) ==
    IF scheme \in {"az", "adl", "azure"} THEN set_container(b, url, host)
    ELSE IF scheme \in {"abfs", "abfss"}
    THEN IF username = "" THEN set_container(b, url, host)
         ELSE IF IsSome(strip_suffix(host, ".dfs.core.windows.net"))
         THEN set_container_then_account(b, url, username,
                                         Unwrap(strip_suffix(host, ".dfs.core.windows.net")))
         ELSE [b |-> b, r |-> NotRecognised(url)]
    ELSE IF scheme = "https"
    THEN IF IsSome(split_once(host, "."))
            /\ Unwrap(split_once(host, "."))[2]
                    \in {"dfs.core.windows.net", "blob.core.windows.net"}
         THEN set_account(b, url, Unwrap(split_once(host, "."))[1])
         ELSE [b |-> b, r |-> NotRecognised(url)]
    ELSE [b |-> b, r |-> Err(ErrorFrom([kind |-> "UnknownUrlScheme", scheme |-> scheme]))]

\* parse_url once Url::parse has returned
parse_url_parsed(b, url, parsed) ==
    IF IsErr(parsed)
    THEN [b |-> b, r |-> Err(ErrorFrom([kind |-> "UnableToParseUrl", url |-> url,
                                         source |-> parsed.val]))]
    ELSE IF IsNone(parsed.val.host) THEN [b |-> b, r |-> NotRecognised(url)]
    ELSE parse_url_scheme(b, url, parsed.val.scheme, parsed.val.username,
                          Unwrap(parsed.val.host))

\* parse_url(&mut self, url): the returned Result and self as the call leaves it
parse_url(b, url) == parse_url_parsed(b, url, Url_parse(url))

---------------------------------------------------------------------------
(* MicrosoftAzureBuilder *)

ClientOptionsDefault == [allow_http |-> FALSE, proxy_url |-> None]

\* #[derive(Default)]: every Option is None, the flag is false
BuilderDefault ==
    [account_name |-> None, access_key |-> None, container_name |-> None,
     bearer_token |-> None, client_id |-> None, client_secret |-> None,
     tenant_id |-> None, sas_query_pairs |-> None, sas_key |-> None,
     authority_host |-> None, url |-> None, use_emulator |-> FALSE,
     retry_config |-> "default", client_options |-> ClientOptionsDefault]

with_url(b, url) == [b EXCEPT !.url = Some(url)]
with_account(b, account) == [b EXCEPT !.account_name = Some(account)]
with_container_name(b, name) == [b EXCEPT !.container_name = Some(name)]
with_access_key(b, key) == [b EXCEPT !.access_key = Some(key)]
with_bearer_token_authorization(b, token) == [b EXCEPT !.bearer_token = Some(token)]
with_client_secret_authorization(b, id, secret, tenant) ==
    [b EXCEPT !.client_id = Some(id), !.client_secret = Some(secret),
              !.tenant_id = Some(tenant)]
with_sas_authorization(b, pairs) == [b EXCEPT !.sas_query_pairs = Some(pairs)]
with_use_emulator(b, flag) == [b EXCEPT !.use_emulator = flag]
with_allow_http(b, flag) == [b EXCEPT !.client_options.allow_http = flag]
with_authority_host(b, host) == [b EXCEPT !.authority_host = Some(host)]
with_retry(b, retry) == [b EXCEPT !.retry_config = retry]
with_proxy_url(b, proxy) == [b EXCEPT !.client_options.proxy_url = Some(proxy)]
with_client_options(b, options) == [b EXCEPT !.client_options = options]

\* a mutant of set_option: a value written through an option is appended to
\* the value the field already holds
set_option_accumulating(b, config_key, value) ==
    CASE config_key = "AccessKey" -> [b EXCEPT !.access_key = Some(UnwrapOr(@, "") \o value)]
      [] config_key = "AccountName" -> [b EXCEPT !.account_name = Some(UnwrapOr(@, "") \o value)]
      [] config_key = "ClientId" -> [b EXCEPT !.client_id = Some(UnwrapOr(@, "") \o value)]
      [] config_key = "ClientSecret" ->
            [b EXCEPT !.client_secret = Some(UnwrapOr(@, "") \o value)]
      [] config_key = "AuthorityId" -> [b EXCEPT !.tenant_id = Some(UnwrapOr(@, "") \o value)]
      [] config_key = "SasKey" -> [b EXCEPT !.sas_key = Some(UnwrapOr(@, "") \o value)]
      [] config_key = "Token" -> [b EXCEPT !.bearer_token = Some(UnwrapOr(@, "") \o value)]
      [] config_key = "UseEmulator" ->
            [b EXCEPT !.use_emulator = @ \/ str_is_truthy(value)]

\* the match of try_with_option once the key is resolved
set_option(b, config_key, value) ==
    CASE config_key = "AccessKey" -> [b EXCEPT !.access_key = Some(value)]
      [] config_key = "AccountName" -> [b EXCEPT !.account_name = Some(value)]
      [] config_key = "ClientId" -> [b EXCEPT !.client_id = Some(value)]
      [] config_key = "ClientSecret" -> [b EXCEPT !.client_secret = Some(value)]
      [] config_key = "AuthorityId" -> [b EXCEPT !.tenant_id = Some(value)]
      [] config_key = "SasKey" -> [b EXCEPT !.sas_key = Some(value)]
      [] config_key = "Token" -> [b EXCEPT !.bearer_token = Some(value)]
      [] config_key = "UseEmulator" -> [b EXCEPT !.use_emulator = str_is_truthy(value)]

\* a mutant of try_with_option: a key that does not resolve is skipped
try_with_option_lenient(b, key, value) ==
    LET k == from_str(key)
    IN  IF IsErr(k) THEN Ok(b) ELSE Ok(set_option(b, k.val, value))

\* try_with_option(self, key, value) -> Result<Self>
try_with_option(b, key, value) ==
    LET k == from_str(key)
    IN  IF IsErr(k) THEN k ELSE Ok(set_option(b, k.val, value))

\* try_with_options(self, options) -> Result<Self>: the first failing key
\* ends the loop and the builder is dropped
RECURSIVE try_with_options(_, _)
try_with_options(b, options) ==
    IF Len(options) = 0 THEN Ok(b)
    ELSE LET r == try_with_option(b, Head(options)[1], Head(options)[2])
         IN  IF IsErr(r) THEN r ELSE try_with_options(r.val, Tail(options))

---------------------------------------------------------------------------
(* MicrosoftAzureBuilder::build *)

\* url_from_env once the variable has been read and parsed
url_from_env_parsed(env_name, env_value, parsed) ==
    IF IsErr(parsed)
    THEN Err(ErrorFrom([kind |-> "UnableToParseEmulatorUrl", env_name |-> env_name,
                        env_value |-> env_value, source |-> parsed.val]))
    ELSE parsed

\* url_from_env(env_name, default_url): env_value is the value of the
\* variable in the process environment, None when it is not set
url_from_env(env_name, env_value, default_url) ==
    IF IsSome(env_value)
    THEN url_from_env_parsed(env_name, Unwrap(env_value), Url_parse(Unwrap(env_value)))
    ELSE Url_parse(default_url)

AccessKey(key) == [kind |-> "AccessKey", key |-> key]
SASToken(pairs) == [kind |-> "SASToken", pairs |-> pairs]
\* CredentialProvider::ClientSecret(ClientSecretOAuthProvider::new(..))
ClientSecret(id, secret, tenant, authority_host) ==
    [kind |-> "ClientSecret", client_id |-> id, client_secret |-> secret,
     tenant_id |-> tenant, authority_host |-> authority_host]

\* Ok(CredentialProvider::SASToken(split_sas(&sas)?))
sas_credential(pairs) ==
    IF IsErr(pairs) THEN Err(ErrorFrom(pairs.val)) ELSE Ok(SASToken(pairs.val))

\* a mutant of select_credential: a SAS key is parsed whatever else is set
select_credential_sas_checked(b) ==
    IF IsSome(b.sas_key) /\ IsErr(split_sas(Unwrap(b.sas_key)))
    THEN sas_credential(split_sas(Unwrap(b.sas_key)))
    ELSE IF IsSome(b.bearer_token) THEN Ok(AccessKey(Unwrap(b.bearer_token)))
    ELSE IF IsSome(b.access_key) THEN Ok(AccessKey(Unwrap(b.access_key)))
    ELSE IF IsSome(b.client_id) /\ IsSome(b.client_secret) /\ IsSome(b.tenant_id)
    THEN Ok(ClientSecret(Unwrap(b.client_id), Unwrap(b.client_secret),
                         Unwrap(b.tenant_id), b.authority_host))
    ELSE IF IsSome(b.sas_query_pairs) THEN Ok(SASToken(Unwrap(b.sas_query_pairs)))
    ELSE IF IsSome(b.sas_key) THEN sas_credential(split_sas(Unwrap(b.sas_key)))
    ELSE Err(ErrorFrom([kind |-> "MissingCredentials"]))

\* a mutant of select_credential: the access key is looked at before the token
select_credential_swapped(b) ==
    IF IsSome(b.access_key) THEN Ok(AccessKey(Unwrap(b.access_key)))
    ELSE IF IsSome(b.bearer_token) THEN Ok(AccessKey(Unwrap(b.bearer_token)))
    ELSE IF IsSome(b.client_id) /\ IsSome(b.client_secret) /\ IsSome(b.tenant_id)
    THEN Ok(ClientSecret(Unwrap(b.client_id), Unwrap(b.client_secret),
                         Unwrap(b.tenant_id), b.authority_host))
    ELSE IF IsSome(b.sas_query_pairs) THEN Ok(SASToken(Unwrap(b.sas_query_pairs)))
    ELSE IF IsSome(b.sas_key) THEN sas_credential(split_sas(Unwrap(b.sas_key)))
    ELSE Err(ErrorFrom([kind |-> "MissingCredentials"]))

\* the if / else-if chain of the normal mode of build
select_credential(b) ==
    IF IsSome(b.bearer_token) THEN Ok(AccessKey(Unwrap(b.bearer_token)))
    ELSE IF IsSome(b.access_key) THEN Ok(AccessKey(Unwrap(b.access_key)))
    ELSE IF IsSome(b.client_id) /\ IsSome(b.client_secret) /\ IsSome(b.tenant_id)
    THEN Ok(ClientSecret(Unwrap(b.client_id), Unwrap(b.client_secret),
                         Unwrap(b.tenant_id), b.authority_host))
    ELSE IF IsSome(b.sas_query_pairs) THEN Ok(SASToken(Unwrap(b.sas_query_pairs)))
    ELSE IF IsSome(b.sas_key) THEN sas_credential(split_sas(Unwrap(b.sas_key)))
    ELSE Err(ErrorFrom([kind |-> "MissingCredentials"]))

\* the tuple (is_emulator, storage_url, auth, account) and the client options
mode_tuple(is_emulator, url, credential, account, client_options) ==
    IF IsErr(url) THEN url
    ELSE IF IsErr(credential) THEN credential
    ELSE Ok([is_emulator |-> is_emulator, url |-> url.val, credential |-> credential.val,
             account |-> account, client_options |-> client_options])

\* a mutant of emulator_mode: the emulator branch consults the credential chain
emulator_mode_chained(b, env_value) ==
    mode_tuple(TRUE,
               url_from_env("AZURITE_BLOB_STORAGE_URL", env_value, "http://127.0.0.1:10000"),
               select_credential(b),
               UnwrapOr(b.account_name, EMULATOR_ACCOUNT),
               [b.client_options EXCEPT !.allow_http = TRUE])

\* the emulator branch of build
emulator_mode(b, env_value) ==
    mode_tuple(TRUE,
               url_from_env("AZURITE_BLOB_STORAGE_URL", env_value, "http://127.0.0.1:10000"),
               Ok(AccessKey(UnwrapOr(b.access_key, EMULATOR_ACCOUNT_KEY))),
               UnwrapOr(b.account_name, EMULATOR_ACCOUNT),
               [b.client_options EXCEPT !.allow_http = TRUE])

\* the normal branch of build once the account URL has been parsed
normal_mode_url(b, account_name, account_url, url) ==
    IF IsErr(url)
    THEN Err(ErrorFrom([kind |-> "UnableToParseUrl", url |-> account_url,
                        source |-> url.val]))
    ELSE mode_tuple(FALSE, url, select_credential(b), account_name, b.client_options)

\* the normal branch of build
normal_mode(b) ==
    IF IsNone(b.account_name) THEN Err(ErrorFrom([kind |-> "MissingAccount"]))
    ELSE normal_mode_url(b, Unwrap(b.account_name),
                         "https://" \o Unwrap(b.account_name) \o ".blob.core.windows.net",
                         Url_parse("https://" \o Unwrap(b.account_name)
                                        \o ".blob.core.windows.net"))

\* a mutant of apply_url: the URL only fills what no setter has set
apply_url_keeping(b) ==
    IF IsSome(b.url)
    THEN [parse_url([b EXCEPT !.url = None], Unwrap(b.url))
            EXCEPT !.b.account_name =
                        IF IsSome(b.account_name) THEN b.account_name ELSE @,
                   !.b.container_name =
                        IF IsSome(b.container_name) THEN b.container_name ELSE @]
    ELSE [b |-> b, r |-> Ok(<<>>)]

\* if let Some(url) = self.url.take() { self.parse_url(&url)?; }
apply_url(b) ==
    IF IsSome(b.url)
    THEN parse_url([b EXCEPT !.url = None], Unwrap(b.url))
    ELSE [b |-> b, r |-> Ok(<<>>)]

\* a mutant of require_container: a missing container name is defaulted
require_container_defaulted(b) == Ok(UnwrapOr(b.container_name, ""))

\* self.container_name.ok_or(Error::MissingContainerName {})?
require_container(b) ==
    IF IsSome(b.container_name) THEN Ok(Unwrap(b.container_name))
    ELSE Err(ErrorFrom([kind |-> "MissingContainerName"]))

\* the AzureConfig and the client made of it
build_client(b, container, mode, client_ok) ==
    IF IsErr(mode) THEN mode
    ELSE IF ~ client_ok
    THEN Err([kind |-> "Generic", store |-> STORE, source |-> [kind |-> "Client"]])
    ELSE Ok([account |-> mode.val.account,
             is_emulator |-> mode.val.is_emulator,
             container |-> container,
             retry_config |-> b.retry_config,
             client_options |-> mode.val.client_options,
             service |-> mode.val.url,
             credentials |-> mode.val.credential])

\* build once the container name is known
build_mode(b, container, env_value, client_ok) ==
    IF IsErr(container) THEN container
    ELSE build_client(b, container.val,
                      IF b.use_emulator THEN emulator_mode(b, env_value) ELSE normal_mode(b),
                      client_ok)

\* build once the connection URL has been applied
build_resolved(u, env_value, client_ok) ==
    IF IsErr(u.r) THEN u.r
    ELSE build_mode(u.b, require_container(u.b), env_value, client_ok)

\* build(self) -> Result<MicrosoftAzure>. env_value is the value of
\* AZURITE_BLOB_STORAGE_URL in the environment of the call; client_ok tells
\* whether AzureClient::new accepts the configuration
build(b0, env_value, client_ok) == build_resolved(apply_url(b0), env_value, client_ok)

---------------------------------------------------------------------------
(* The builder program: any sequence of setter calls, then build *)

\* longest chain of setter calls before build
MaxCalls == 4

\* an account name, and the empty string a setter accepts as well
Accounts == {"acct", ""}
Containers == {"cont", ""}
AccessKeys == {"key"}
Tokens == {"tok"}
ClientIds == {"id"}
ClientSecrets == {"secret"}
TenantIds == {"tenant"}
SasPairLists == {<< <<"sv", "1">> >>}
SasKeys == {"?sv=1&sig=a%2Bb", "sv=1&sig"}
AuthorityHosts == {"https://login.example"}
RetryConfigs == {"default", "custom"}
ProxyUrls == {"http://proxy"}
Urls ==
    {"abfss://file_system@account.dfs.core.windows.net/",
     "az://container/path",
     "https://account.blob.core.windows.net/",
     "az://blob.mydomain/",
     "mailto://account.blob.core.windows.net/"}
\* values of AZURITE_BLOB_STORAGE_URL in the environment of build
EnvValues == {None, Some("http://localhost:10000"), Some("localhost")}

\* the keys handed to try_with_option in the builder program: the canonical
\* name of every AzureConfigKey and one string that is no alias
BuildKeys == {as_ref(k) : k \in AzureConfigKey} \cup {"invalid-key"}

OptionValues(key) ==
    CASE key = "azure_storage_account_name" -> Accounts
      [] key = "azure_storage_account_key" -> AccessKeys
      [] key = "azure_storage_client_id" -> ClientIds
      [] key = "azure_storage_client_secret" -> ClientSecrets
      [] key = "azure_storage_tenant_id" -> TenantIds
      [] key = "azure_storage_sas_key" -> SasKeys
      [] key = "azure_storage_token" -> Tokens
      [] key = "azure_storage_use_emulator" -> {"true", "false"}
      [] OTHER -> Tokens

\* no multipart upload is running
NoUpload ==
    /\ inflight = {}
    /\ blocks = <<>>
    /\ requests = <<>>
    /\ completed_parts = <<>>
    /\ blob = None
    /\ ret = None
    /\ aborted = None

InitBuilder ==
    /\ pc = "builder"
    /\ builder = BuilderDefault
    /\ result = None
    /\ set_after_url = FALSE
    /\ calls = 0
    /\ writes = <<>>
    /\ args = None
    /\ NoUpload

\* a setter call: the builder is moved in and out, nothing is returned yet
Set(b, name_after_url) ==
    /\ pc = "builder"
    /\ calls < MaxCalls
    /\ builder' = b
    /\ calls' = calls + 1
    /\ set_after_url' = (set_after_url \/ (name_after_url /\ IsSome(builder.url)))
    /\ UNCHANGED <<pc, result, writes, args>>
    /\ UNCHANGED uploadVars

WithUrl == \E u \in Urls : Set(with_url(builder, u), FALSE)
WithAccount == \E a \in Accounts : Set(with_account(builder, a), TRUE)
WithContainerName == \E c \in Containers : Set(with_container_name(builder, c), TRUE)
WithAccessKey == \E k \in AccessKeys : Set(with_access_key(builder, k), FALSE)
WithBearerTokenAuthorization ==
    \E t \in Tokens : Set(with_bearer_token_authorization(builder, t), FALSE)
WithClientSecretAuthorization ==
    \E i \in ClientIds, s \in ClientSecrets, t \in TenantIds :
        Set(with_client_secret_authorization(builder, i, s, t), FALSE)
WithSasAuthorization ==
    \E p \in SasPairLists : Set(with_sas_authorization(builder, p), FALSE)
WithUseEmulator == \E f \in BOOLEAN : Set(with_use_emulator(builder, f), FALSE)
WithAllowHttp == \E f \in BOOLEAN : Set(with_allow_http(builder, f), FALSE)
WithAuthorityHost == \E h \in AuthorityHosts : Set(with_authority_host(builder, h), FALSE)
WithRetry == \E r \in RetryConfigs : Set(with_retry(builder, r), FALSE)
WithProxyUrl == \E p \in ProxyUrls : Set(with_proxy_url(builder, p), FALSE)
WithClientOptions ==
    \E f \in BOOLEAN, p \in {None} \cup {Some(x) : x \in ProxyUrls} :
        Set(with_client_options(builder, [allow_http |-> f, proxy_url |-> p]), FALSE)

\* try_with_option: on an unknown key the builder is gone and the error is
\* all the caller holds
TryWithOption ==
    /\ pc = "builder"
    /\ calls < MaxCalls
    /\ calls' = calls + 1
    /\ UNCHANGED <<writes, args>>
    /\ UNCHANGED uploadVars
    /\ \E key \in BuildKeys : \E value \in OptionValues(key) :
        LET r == try_with_option(builder, key, value)
        IN  IF IsOk(r)
            THEN /\ builder' = r.val
                 /\ set_after_url' =
                        (set_after_url \/ (key = "azure_storage_account_name" /\ IsSome(builder.url)))
                 /\ UNCHANGED <<pc, result>>
            ELSE /\ pc' = "failed"
                 /\ result' = Some(r)
                 /\ UNCHANGED <<builder, set_after_url>>

\* build: the builder is consumed; the model keeps its last value next to
\* the result
Build ==
    /\ pc = "builder"
    /\ \E env_value \in EnvValues, client_ok \in BOOLEAN :
        result' = Some(build(builder, env_value, client_ok))
    /\ pc' = "built"
    /\ UNCHANGED <<builder, set_after_url, calls, writes, args>>
    /\ UNCHANGED uploadVars

Next ==
    \/ WithUrl \/ WithAccount \/ WithContainerName \/ WithAccessKey
    \/ WithBearerTokenAuthorization \/ WithClientSecretAuthorization
    \/ WithSasAuthorization \/ WithUseEmulator \/ WithAllowHttp
    \/ WithAuthorityHost \/ WithRetry \/ WithProxyUrl \/ WithClientOptions
    \/ TryWithOption \/ Build

Spec == InitBuilder /\ [][Next]_vars

---------------------------------------------------------------------------
(* Properties of build *)

\* the builder as build sees it once the connection URL has been applied
Resolved == apply_url(builder).b

BuildReturned == pc = "built" /\ IsSome(result)
BuildResult == Unwrap(result)

\* build got as far as choosing credentials in normal mode
NormalResolved ==
    /\ BuildReturned
    /\ IsOk(apply_url(builder).r)
    /\ ~ Resolved.use_emulator
    /\ IsSome(Resolved.account_name)
    /\ IsSome(Resolved.container_name)

\* build produced an adapter holding credential c, or the client constructor refused
Selected(c) ==
    \/ IsOk(BuildResult) /\ BuildResult.val.credentials = c
    \/ IsErr(BuildResult) /\ AzureKind(BuildResult.val) = "Client"

HasTriple(b) == IsSome(b.client_id) /\ IsSome(b.client_secret) /\ IsSome(b.tenant_id)

\* C1: in normal mode with account and container resolved, build takes the
\* first credential whose inputs are all present, in the order bearer token,
\* access key, complete client-secret triple, SAS pair list, SAS key string;
\* with none of them it fails with MissingCredentials, and only then
Thm_C1 ==
    NormalResolved =>
        LET b == Resolved
            bearer == IsSome(b.bearer_token)
            access == IsSome(b.access_key)
            triple == HasTriple(b)
            pairs == IsSome(b.sas_query_pairs)
            sas == IsSome(b.sas_key)
        IN  /\ bearer => Selected([kind |-> "AccessKey", key |-> b.bearer_token[1]])
            /\ (~ bearer /\ access) =>
                    Selected([kind |-> "AccessKey", key |-> b.access_key[1]])
            /\ (~ bearer /\ ~ access /\ triple) =>
                    Selected([kind |-> "ClientSecret", client_id |-> b.client_id[1],
                              client_secret |-> b.client_secret[1],
                              tenant_id |-> b.tenant_id[1],
                              authority_host |-> b.authority_host])
            /\ (~ bearer /\ ~ access /\ ~ triple /\ pairs) =>
                    Selected([kind |-> "SASToken", pairs |-> b.sas_query_pairs[1]])
            /\ (~ bearer /\ ~ access /\ ~ triple /\ ~ pairs /\ sas) =>
                    \/ IsOk(BuildResult) /\ BuildResult.val.credentials.kind = "SASToken"
                    \/ IsErr(BuildResult)
                       /\ AzureKind(BuildResult.val)
                            \in {"MissingSasComponent", "DecodeSasKey", "Client"}
            /\ (~ bearer /\ ~ access /\ ~ triple /\ ~ pairs /\ ~ sas) <=>
                    (IsErr(BuildResult) /\ AzureKind(BuildResult.val) = "MissingCredentials")

\* a bearer token and an access key are both set and the token is the credential
Wit_C1 ==
    /\ NormalResolved
    /\ IsSome(builder.bearer_token) /\ IsSome(builder.access_key)
    /\ IsOk(BuildResult)
    /\ BuildResult.val.credentials = [kind |-> "AccessKey", key |-> "tok"]

\* C2: with the emulator flag set and a container resolved, build never fails
\* for a missing account or missing credentials; the account is the supplied
\* one or EMULATOR_ACCOUNT and the credential is a shared key holding the
\* supplied access key or EMULATOR_ACCOUNT_KEY, whatever else was supplied
Thm_C2 ==
    (/\ BuildReturned
     /\ IsOk(apply_url(builder).r)
     /\ Resolved.use_emulator
     /\ IsSome(Resolved.container_name)) =>
        /\ IsErr(BuildResult) =>
                AzureKind(BuildResult.val) \in {"UnableToParseEmulatorUrl", "Client"}
        /\ IsOk(BuildResult) =>
            /\ BuildResult.val.is_emulator
            /\ BuildResult.val.account =
                    IF IsSome(Resolved.account_name) THEN Resolved.account_name[1]
                    ELSE "devstoreaccount1"
            /\ BuildResult.val.credentials.kind = "AccessKey"
            /\ BuildResult.val.credentials.key =
                    IF IsSome(builder.access_key) THEN builder.access_key[1]
                    ELSE EMULATOR_ACCOUNT_KEY

\* emulator mode, no account, no access key, yet a bearer token: the
\* well-known account and key are what the configuration holds
Wit_C2 ==
    /\ BuildReturned /\ IsOk(BuildResult)
    /\ builder.use_emulator
    /\ IsNone(builder.account_name) /\ IsNone(builder.access_key)
    /\ IsNone(builder.url)
    /\ IsSome(builder.bearer_token)
    /\ BuildResult.val.account = "devstoreaccount1"
    /\ BuildResult.val.credentials = [kind |-> "AccessKey", key |-> EMULATOR_ACCOUNT_KEY]

\* what each connection URL of the model carries (azure_blob_test_urls)
UrlCarries(u) ==
    CASE u = "abfss://file_system@account.dfs.core.windows.net/" ->
            [account |-> Some("account"), container |-> Some("file_system")]
      [] u = "az://container/path" -> [account |-> None, container |-> Some("container")]
      [] u = "https://account.blob.core.windows.net/" ->
            [account |-> Some("account"), container |-> None]
      [] OTHER -> [account |-> None, container |-> None]

\* C3: when the builder holds a connection URL and build succeeds, the
\* account and the container the URL carries are the ones of the built
\* configuration, whether the setters of these fields ran before or after
\* with_url; a field the URL does not carry keeps the value of its last setter
Thm_C3 ==
    (BuildReturned /\ IsSome(builder.url) /\ IsOk(BuildResult)) =>
        LET carried == UrlCarries(builder.url[1])
            config == BuildResult.val
        IN  /\ IsSome(carried.account) => config.account = carried.account[1]
            /\ IsSome(carried.container) => config.container = carried.container[1]
            /\ (IsNone(carried.account) /\ IsSome(builder.account_name)) =>
                    config.account = builder.account_name[1]
            /\ (IsNone(carried.container) /\ IsSome(builder.container_name)) =>
                    config.container = builder.container_name[1]

\* with_account ran after with_url with another name, and the URL's account
\* and container are in the configuration
Wit_C3 ==
    /\ BuildReturned /\ IsOk(BuildResult)
    /\ set_after_url
    /\ builder.url = Some("abfss://file_system@account.dfs.core.windows.net/")
    /\ builder.account_name = Some("acct")
    /\ BuildResult.val.account = "account"
    /\ BuildResult.val.container = "file_system"

\* C4: with no connection URL and no container name set, build fails with
\* MissingContainerName whatever the other fields hold
Thm_C4 ==
    (BuildReturned /\ IsNone(builder.url) /\ IsNone(builder.container_name)) =>
        /\ IsErr(BuildResult)
        /\ BuildResult.val.kind = "Generic"
        /\ BuildResult.val.source.kind = "MissingContainerName"

\* account, access key and emulator flag are set, the container is not
Wit_C4 ==
    /\ BuildReturned
    /\ IsNone(builder.url) /\ IsNone(builder.container_name)
    /\ IsSome(builder.account_name) /\ IsSome(builder.access_key)
    /\ builder.use_emulator
    /\ IsErr(BuildResult)
    /\ AzureKind(BuildResult.val) = "MissingContainerName"

---------------------------------------------------------------------------
(* Block-based multipart upload: AzureMultiPartUpload and abort_multipart *)

\* CloudMultiPartUpload::new(inner, 8): part uploads in flight at once
MaxConcurrency == 8

\* width of format!("{:20}", part_idx)
BlockIdWidth == 20

Base64Alphabet == "ABCDEFGHIJKLMNOPQRSTUVWXYZabcdefghijklmnopqrstuvwxyz0123456789+/"
B64(n) == Char(Base64Alphabet, n + 1)

\* base64::encode: three bytes to four characters, '=' padding at the end
RECURSIVE base64_encode(_)
base64_encode(bytes) ==
    IF Len(bytes) = 0 THEN ""
    ELSE IF Len(bytes) = 1
    THEN B64(bytes[1] \div 4) \o B64((bytes[1] % 4) * 16) \o "=="
    ELSE IF Len(bytes) = 2
    THEN B64(bytes[1] \div 4) \o B64((bytes[1] % 4) * 16 + bytes[2] \div 16)
            \o B64((bytes[2] % 16) * 4) \o "="
    ELSE B64(bytes[1] \div 4) \o B64((bytes[1] % 4) * 16 + bytes[2] \div 16)
            \o B64((bytes[2] % 16) * 4 + bytes[3] \div 64) \o B64(bytes[3] % 64)
            \o base64_encode(SubSeq(bytes, 4, Len(bytes)))

\* Display for usize: the decimal digits, no sign, no leading zero
RECURSIVE to_string(_)
to_string(n) ==
    IF n < 10 THEN Char(Digits, n + 1)
    ELSE to_string(n \div 10) \o Char(Digits, (n % 10) + 1)

RECURSIVE Repeat(_, _)
Repeat(c, n) == IF n <= 0 THEN "" ELSE c \o Repeat(c, n - 1)

\* a mutant of format_part_idx: the fill is '0', as "{:020}" would give
format_part_idx_zero_filled(part_idx) ==
    LET d == to_string(part_idx) IN Repeat("0", BlockIdWidth - Len(d)) \o d

\* a mutant of format_part_idx: no width, as "{}" would give
format_part_idx_unpadded(part_idx) == to_string(part_idx)

\* format!("{:20}", part_idx): minimum width 20 and no fill or alignment
\* given, so the fill is a space and the number is right-aligned; a longer
\* number is not truncated
format_part_idx(part_idx) ==
    LET d == to_string(part_idx) IN Repeat(" ", BlockIdWidth - Len(d)) \o d

\* BlockId::from(String): the bytes of the string
BlockId_from(content_id) == [i \in 1..Len(content_id) |-> AsciiCode(Char(content_id, i))]

\* put_multipart_part up to its await: the content id and the request
put_multipart_part(location, buf, part_idx) ==
    LET content_id == format_part_idx(part_idx)
        block_id == BlockId_from(content_id)
    IN  [content_id |-> content_id,
         request |-> [location |-> location, body |-> buf, is_block_op |-> TRUE,
                      query |-> << <<"comp", "block">>,
                                   <<"blockid", base64_encode(block_id)>> >>]]

\* BlockList::to_xml: one entry per block, in the order of the list, each
\* the base64 encoding of the block id
to_xml(block_list) == [i \in 1..Len(block_list) |-> base64_encode(block_list[i])]

\* parse the decimal number a content id holds
RECURSIVE ParseDecimal(_)
ParseDecimal(s) ==
    IF Len(s) = 0 THEN 0
    ELSE 10 * ParseDecimal(Prefix(s, Len(s) - 1)) + (Find(Digits, Char(s, Len(s))) - 1)

\* a mutant of complete_blocks: the blocks are put in part-index order
complete_blocks_by_index(completed_parts_) ==
    LET sorted == SortSeq(completed_parts_,
                          LAMBDA a, b : ParseDecimal(trim(a.content_id))
                                            < ParseDecimal(trim(b.content_id)))
    IN  [i \in 1..Len(sorted) |-> BlockId_from(sorted[i].content_id)]

\* completed_parts.into_iter().map(|part| BlockId::from(part.content_id)).collect()
complete_blocks(completed_parts_) ==
    [i \in 1..Len(completed_parts_) |-> BlockId_from(completed_parts_[i].content_id)]

\* complete up to its await: the one request it sends
complete(location, completed_parts_) ==
    [location |-> location, body |-> to_xml(complete_blocks(completed_parts_)),
     is_block_op |-> TRUE, query |-> << <<"comp", "blocklist">> >>]

QueryValue(request, name) ==
    LET i == CHOOSE i \in 1..Len(request.query) : request.query[i][1] = name
    IN  request.query[i][2]
HasQuery(request, name, value) ==
    \E i \in 1..Len(request.query) : request.query[i] = <<name, value>>

\* most put_multipart_part calls of one upload
MaxSubmits == 2

PartIndices == {0, 7, 10, 2147483647}
UploadLocation == "blob"
Locations == {"blob", "other"}
MultipartIds == {"", "id"}

\* the upload program starts from a built adapter and put_multipart(location)
InitUpload ==
    /\ pc = "Open"
    /\ builder = with_access_key(with_container_name(with_account(BuilderDefault, "acct"),
                                                     "cont"), "key")
    /\ result = Some(build(builder, None, TRUE))
    /\ set_after_url = FALSE
    /\ calls = 0
    /\ writes = <<>>
    /\ args = None
    /\ NoUpload

\* the driver calls put_multipart_part(buf, part_idx); the request leaves
StartPart ==
    /\ pc = "Open"
    /\ Len(requests) + Cardinality(inflight) < MaxSubmits
    /\ Cardinality(inflight) < MaxConcurrency
    /\ \E part_idx \in PartIndices :
        LET buf == Len(requests) + Cardinality(inflight) + 1
            call == put_multipart_part(UploadLocation, buf, part_idx)
        IN  inflight' = inflight \cup {[part_idx |-> part_idx, buf |-> buf,
                                        content_id |-> call.content_id,
                                        request |-> call.request]}
    /\ UNCHANGED <<pc, blocks, requests, completed_parts, blob, ret, aborted>>
    /\ UNCHANGED builderVars

\* the provider stores the body under the block id of the request
PutBlock(store, request) ==
    LET id == QueryValue(request, "blockid")
    IN  [k \in (DOMAIN store) \cup {id} |-> IF k = id THEN request.body ELSE store[k]]

\* a mutant of FinishPart: the answer of the request is not looked at and
\* the call returns its UploadPart either way
FinishPartUnchecked ==
    /\ \E call \in inflight : \E ok \in BOOLEAN :
        /\ inflight' = inflight \ {call}
        /\ requests' = Append(requests, [part_idx |-> call.part_idx, ok |-> ok,
                                         request |-> call.request])
        /\ blocks' = IF ok THEN PutBlock(blocks, call.request) ELSE blocks
        /\ completed_parts' = Append(completed_parts, [content_id |-> call.content_id])
        /\ ret' = Some([op |-> "put_multipart_part", part_idx |-> call.part_idx,
                        val |-> Ok([content_id |-> call.content_id])])
        /\ pc' = pc
    /\ UNCHANGED <<blob, aborted>>
    /\ UNCHANGED builderVars

\* the request of one put_multipart_part call in flight is answered: on
\* success the call returns its UploadPart, on failure the error
FinishPart ==
    /\ \E call \in inflight : \E ok \in BOOLEAN :
        /\ inflight' = inflight \ {call}
        /\ requests' = Append(requests, [part_idx |-> call.part_idx, ok |-> ok,
                                         request |-> call.request])
        /\ IF ok
           THEN /\ blocks' = PutBlock(blocks, call.request)
                /\ completed_parts' = Append(completed_parts, [content_id |-> call.content_id])
                /\ ret' = Some([op |-> "put_multipart_part", part_idx |-> call.part_idx,
                                val |-> Ok([content_id |-> call.content_id])])
                /\ pc' = pc
           ELSE /\ ret' = Some([op |-> "put_multipart_part", part_idx |-> call.part_idx,
                                val |-> Err("io::Error")])
                /\ pc' = IF pc = "Open" THEN "Failed" ELSE pc
                /\ UNCHANGED <<blocks, completed_parts>>
    /\ UNCHANGED <<blob, aborted>>
    /\ UNCHANGED builderVars

\* the driver, all its parts answered, calls complete(completed_parts); the
\* provider commits the list when every block it names has been uploaded
Complete ==
    /\ pc = "Open"
    /\ inflight = {}
    /\ \E ok \in BOOLEAN :
        LET request == complete(UploadLocation, completed_parts)
            accepted == ok /\ \A i \in 1..Len(request.body) : request.body[i] \in DOMAIN blocks
        IN  /\ requests' = Append(requests, [part_idx |-> -1, ok |-> accepted,
                                             request |-> request])
            /\ blob' = IF accepted THEN Some(request.body) ELSE blob
            /\ pc' = IF accepted THEN "Committed" ELSE "Failed"
            /\ ret' = Some([op |-> "complete", part_idx |-> -1,
                            val |-> IF accepted THEN Ok(<<>>) ELSE Err("io::Error")])
    /\ UNCHANGED <<inflight, blocks, completed_parts, aborted>>
    /\ UNCHANGED builderVars

\* a mutant of AbortMultipart: the abort drops the blocks uploaded so far
AbortMultipartDropping ==
    /\ pc \in {"Open", "Committed", "Failed"}
    /\ \E location \in Locations, multipart_id \in MultipartIds :
        ret' = Some([op |-> "abort_multipart", location |-> location,
                     multipart_id |-> multipart_id, val |-> Ok(<<>>)])
    /\ aborted' = Some(Len(requests))
    /\ blocks' = <<>>
    /\ completed_parts' = <<>>
    /\ UNCHANGED <<pc, inflight, requests, blob>>
    /\ UNCHANGED builderVars

\* abort_multipart(location, multipart_id): Ok(()) and nothing else
AbortMultipart ==
    /\ pc \in {"Open", "Committed", "Failed"}
    /\ \E location \in Locations, multipart_id \in MultipartIds :
        ret' = Some([op |-> "abort_multipart", location |-> location,
                     multipart_id |-> multipart_id, val |-> Ok(<<>>)])
    /\ aborted' = Some(Len(requests))
    /\ UNCHANGED <<pc, inflight, blocks, requests, completed_parts, blob>>
    /\ UNCHANGED builderVars

NextUpload == StartPart \/ FinishPart \/ Complete \/ AbortMultipart

SpecUpload == InitUpload /\ [][NextUpload]_vars

---------------------------------------------------------------------------
(* Properties of the multipart upload *)

IsBlockRequest(entry) == HasQuery(entry.request, "comp", "block")
IsBlockListRequest(entry) == HasQuery(entry.request, "comp", "blocklist")

\* positions in the request log of the block uploads, and of those accepted
BlockRequests == {k \in 1..Len(requests) : IsBlockRequest(requests[k])}
AcceptedBlocks == {k \in BlockRequests : requests[k].ok}

\* a put_multipart_part call has just returned an UploadPart
PartReturned ==
    /\ IsSome(ret)
    /\ Unwrap(ret).op = "put_multipart_part"
    /\ IsOk(Unwrap(ret).val)

\* the decimal digits of the part indices of the model, zero-filled to 20
ZeroFilled(part_idx) ==
    CASE part_idx = 0 -> "00000000000000000000"
      [] part_idx = 7 -> "00000000000000000007"
      [] part_idx = 10 -> "00000000000000000010"
      [] part_idx = 2147483647 -> "00000000002147483647"

ZeroFilledBase64(part_idx) ==
    CASE part_idx = 0 -> "MDAwMDAwMDAwMDAwMDAwMDAwMDA="
      [] part_idx = 7 -> "MDAwMDAwMDAwMDAwMDAwMDAwMDc="
      [] part_idx = 10 -> "MDAwMDAwMDAwMDAwMDAwMDAwMTA="
      [] part_idx = 2147483647 -> "MDAwMDAwMDAwMDIxNDc0ODM2NDc="

\* the same digits right-aligned in 20 columns of spaces
SpaceFilled(part_idx) ==
    CASE part_idx = 0 -> "                   0"
      [] part_idx = 7 -> "                   7"
      [] part_idx = 10 -> "                  10"
      [] part_idx = 2147483647 -> "          2147483647"

SpaceFilledBase64(part_idx) ==
    CASE part_idx = 0 -> "ICAgICAgICAgICAgICAgICAgIDA="
      [] part_idx = 7 -> "ICAgICAgICAgICAgICAgICAgIDc="
      [] part_idx = 10 -> "ICAgICAgICAgICAgICAgICAgMTA="
      [] part_idx = 2147483647 -> "ICAgICAgICAgIDIxNDc0ODM2NDc="

\* C5 as stated: the block identifier of part index i is the decimal
\* representation of i zero-padded on the left to 20 characters, its base64
\* encoding is the blockid of the comp=block request and the same 20
\* characters are the content_id of the UploadPart
Orig_C5 ==
    PartReturned =>
        LET r == Unwrap(ret)
            sent == requests[Len(requests)]
        IN  /\ r.val.val.content_id = ZeroFilled(r.part_idx)
            /\ IsBlockRequest(sent)
            /\ QueryValue(sent.request, "blockid") = ZeroFilledBase64(r.part_idx)

\* C5 amended: the block identifier of part index i is the decimal
\* representation of i right-aligned and padded on the left with spaces to
\* 20 characters, its base64 encoding is the blockid of the comp=block
\* request and the same 20 characters are the content_id of the UploadPart
Thm_C5 ==
    PartReturned =>
        LET r == Unwrap(ret)
            sent == requests[Len(requests)]
        IN  /\ r.val.val.content_id = SpaceFilled(r.part_idx)
            /\ Len(r.val.val.content_id) = 20
            /\ sent.part_idx = r.part_idx
            /\ IsBlockRequest(sent)
            /\ QueryValue(sent.request, "blockid") = SpaceFilledBase64(r.part_idx)

\* part 7 has been uploaded: 19 spaces and the digit 7
Wit_C5 ==
    /\ PartReturned
    /\ Unwrap(ret).part_idx = 7
    /\ Unwrap(ret).val.val.content_id = "                   7"
    /\ QueryValue(requests[Len(requests)].request, "blockid") = "ICAgICAgICAgICAgICAgICAgIDc="

\* C6: block identifiers are fixed-length and collision-free: two part
\* submissions carry the same block id exactly when they carry the same part
\* index, every identifier is 20 characters long before encoding, and the
\* provider holds one block per accepted index, with the body of the last
\* accepted submission of that index
Thm_C6 ==
    /\ \A k, l \in BlockRequests :
            (requests[k].part_idx = requests[l].part_idx)
                <=> (QueryValue(requests[k].request, "blockid")
                        = QueryValue(requests[l].request, "blockid"))
    /\ \A call \in inflight : Len(call.content_id) = 20
    /\ \A i \in 1..Len(completed_parts) : Len(completed_parts[i].content_id) = 20
    /\ Cardinality(DOMAIN blocks) = Cardinality({requests[k].part_idx : k \in AcceptedBlocks})
    /\ \A k \in AcceptedBlocks :
            LET same == {l \in AcceptedBlocks : requests[l].part_idx = requests[k].part_idx}
                newest == CHOOSE l \in same : \A m \in same : m <= l
            IN  /\ QueryValue(requests[k].request, "blockid") \in DOMAIN blocks
                /\ blocks[QueryValue(requests[k].request, "blockid")]
                        = requests[newest].request.body

\* parts 7 and 2147483647 are both uploaded: two blocks, two identifiers of
\* 20 characters
Wit_C6 ==
    /\ Len(completed_parts) = 2
    /\ {requests[k].part_idx : k \in AcceptedBlocks} = {7, 2147483647}
    /\ Cardinality(DOMAIN blocks) = 2
    /\ completed_parts[1].content_id # completed_parts[2].content_id

\* C7: the comp=blocklist manifest that complete submits lists the content
\* ids of the parts handed to it, in the order of that sequence: same length,
\* same positions, whatever the order in which the parts were answered; and
\* there is one manifest
Thm_C7 ==
    /\ Cardinality({k \in 1..Len(requests) : IsBlockListRequest(requests[k])}) <= 1
    /\ \A k \in 1..Len(requests) :
        IsBlockListRequest(requests[k]) =>
            LET manifest == requests[k].request.body
            IN  /\ Len(manifest) = Len(completed_parts)
                /\ \A i \in 1..Len(manifest) :
                        manifest[i] = base64_encode(BlockId_from(completed_parts[i].content_id))
    /\ (IsSome(ret) /\ Unwrap(ret).op = "complete") =>
            IsBlockListRequest(requests[Len(requests)])

\* part 10 was answered before part 7 and the committed list is 10, then 7
Wit_C7 ==
    /\ pc = "Committed"
    /\ Len(completed_parts) = 2
    /\ completed_parts[1].content_id = "                  10"
    /\ completed_parts[2].content_id = "                   7"
    /\ blob = Some(<<"ICAgICAgICAgICAgICAgICAgMTA=", "ICAgICAgICAgICAgICAgICAgIDc=">>)

\* C8: abort_multipart returns Ok for every location and multipart id in
\* every state of the upload, sends no request and leaves the state of the
\* upload, the blocks of the provider and the configuration as they were
Thm_C8 ==
    [][(ret' # ret /\ Unwrap(ret').op = "abort_multipart") =>
            /\ IsOk(Unwrap(ret').val)
            /\ UNCHANGED <<pc, inflight, blocks, requests, completed_parts, blob>>
            /\ UNCHANGED <<builder, result>>]_vars

\* a part uploaded before abort_multipart is committed by a later complete
Wit_C8 ==
    /\ pc = "Committed"
    /\ IsSome(aborted) /\ Unwrap(aborted) = 1
    /\ Len(requests) = 2
    /\ requests[1].ok /\ IsBlockRequest(requests[1])
    /\ blob = Some(<<QueryValue(requests[1].request, "blockid")>>)

---------------------------------------------------------------------------
(* The options program: key-value options applied to a builder *)

\* the aliases listed under "Supported keys" in the documentation of each key
DocumentedAliases(k) ==
    CASE k = "AccountName" -> {"azure_storage_account_name", "account_name"}
      [] k = "AccessKey" ->
            {"azure_storage_account_key", "azure_storage_access_key",
             "azure_storage_master_key", "access_key", "account_key", "master_key"}
      [] k = "ClientId" -> {"azure_storage_client_id", "azure_client_id", "client_id"}
      [] k = "ClientSecret" ->
            {"azure_storage_client_secret", "azure_client_secret", "client_secret"}
      [] k = "AuthorityId" ->
            {"azure_storage_tenant_id", "azure_storage_authority_id", "azure_tenant_id",
             "azure_authority_id", "tenant_id", "authority_id"}
      [] k = "SasKey" ->
            {"azure_storage_sas_key", "azure_storage_sas_token", "sas_key", "sas_token"}
      [] k = "Token" -> {"azure_storage_token", "bearer_token", "token"}
      [] k = "UseEmulator" ->
            {"azure_storage_use_emulator", "object_store_use_emulator", "use_emulator"}

AllDocumentedAliases == UNION {DocumentedAliases(k) : k \in AzureConfigKey}

\* strings that are no alias: another case, another separator, a trailing
\* space, the empty string, a name of the enum
NonAliases ==
    {"invalid-key", "AZURE_STORAGE_TOKEN", "Account_Name", "token ", "", "AccountName"}

OptionKeys == AllDocumentedAliases \cup NonAliases

OptionValuesFor(key) ==
    IF key \in DocumentedAliases("UseEmulator") THEN {"true", "false"} ELSE {"v"}

\* longest batch handed to try_with_options
MaxBatch == 2

\* the keys of the batches
BatchKeys == {"azure_client_id", "account_name", "use_emulator", "invalid-key", "Account_Name"}

RECURSIVE Batches(_)
\* the batches of exactly n options
Batches(n) ==
    IF n = 0 THEN {<<>>}
    ELSE {Append(batch, <<key, value>>) :
            batch \in Batches(n - 1),
            key \in BatchKeys, value \in {"true"}}

InitOptions ==
    /\ pc = "builder"
    /\ builder = BuilderDefault
    /\ result = None
    /\ set_after_url = FALSE
    /\ calls = 0
    /\ writes = <<>>
    /\ args = None
    /\ NoUpload

\* builder.try_with_option(key, value): Ok(builder) or the error, and then
\* the builder is gone
OptionCall ==
    /\ pc = "builder"
    /\ \E key \in OptionKeys : \E value \in OptionValuesFor(key) :
        LET r == try_with_option(builder, key, value)
        IN  /\ ret' = Some([op |-> "try_with_option", key |-> key, value |-> value,
                            resolved |-> from_str(key), ok |-> IsOk(r)])
            /\ IF IsOk(r)
               THEN builder' = r.val /\ UNCHANGED <<pc, result>>
               ELSE pc' = "failed" /\ result' = Some(r) /\ UNCHANGED builder
    /\ UNCHANGED <<set_after_url, calls, inflight, blocks, requests, completed_parts,
                   blob, aborted, writes, args>>

\* builder.try_with_options(batch)
OptionsCall ==
    /\ pc = "builder"
    /\ \E n \in 1..MaxBatch : \E batch \in Batches(n) :
        LET r == try_with_options(builder, batch)
        IN  /\ ret' = Some([op |-> "try_with_options", options |-> batch, ok |-> IsOk(r)])
            /\ IF IsOk(r)
               THEN builder' = r.val /\ UNCHANGED <<pc, result>>
               ELSE pc' = "failed" /\ result' = Some(r) /\ UNCHANGED builder
    /\ UNCHANGED <<set_after_url, calls, inflight, blocks, requests, completed_parts,
                   blob, aborted, writes, args>>

NextOptions == OptionCall \/ OptionsCall

SpecOptions == InitOptions /\ [][NextOptions]_vars

\* the last call that returned was op
Returned(op) == IsSome(ret) /\ Unwrap(ret).op = op

UnknownKeyError(key) ==
    Err([kind |-> "UnknownConfigurationKey", store |-> "MicrosoftAzure", key |-> key])

\* C9 as stated: from_str of every alias documented for a key returns that
\* key, and no alias is documented for two keys
Orig_C9 ==
    /\ \A k1, k2 \in AzureConfigKey :
            k1 # k2 => DocumentedAliases(k1) \cap DocumentedAliases(k2) = {}
    /\ Returned("try_with_option") =>
            \A k \in AzureConfigKey :
                Unwrap(ret).key \in DocumentedAliases(k) => Unwrap(ret).resolved = Ok(k)

\* C10: a string that is none of the aliases makes from_str and
\* try_with_option fail with UnknownConfigurationKey naming that string, and
\* try_with_options fails, with no builder returned, as soon as one key of
\* the batch is no alias, whatever its position and its valid companions
Thm_C10 ==
    /\ (Returned("try_with_option") /\ Unwrap(ret).key \notin AllDocumentedAliases) =>
            /\ Unwrap(ret).resolved = UnknownKeyError(Unwrap(ret).key)
            /\ ~ Unwrap(ret).ok
            /\ pc = "failed"
            /\ result = Some(UnknownKeyError(Unwrap(ret).key))
    /\ Returned("try_with_options") =>
            LET options == Unwrap(ret).options
                unknown == {i \in 1..Len(options) : options[i][1] \notin AllDocumentedAliases}
            IN  unknown # {} =>
                    /\ ~ Unwrap(ret).ok
                    /\ pc = "failed"
                    /\ IsSome(result) /\ IsErr(Unwrap(result))
                    /\ \E i \in unknown : result = Some(UnknownKeyError(options[i][1]))

\* a batch of a valid key followed by "invalid-key" is refused, naming it
Wit_C10 ==
    /\ Returned("try_with_options")
    /\ Unwrap(ret).options = << <<"azure_client_id", "true">>, <<"invalid-key", "true">> >>
    /\ pc = "failed"
    /\ result = Some(UnknownKeyError("invalid-key"))

---------------------------------------------------------------------------
(* The write program: key-value options and setters on one builder *)

\* longest chain of writing calls
MaxWrites == 2

\* the strings written to the fields, and to the flag through an option
WriteValues == {"a", "b"}
WriteFlags == {"true", "false"}

\* the field each arm of the match of try_with_option assigns
FieldOf(k) ==
    CASE k = "AccessKey" -> "access_key"
      [] k = "AccountName" -> "account_name"
      [] k = "ClientId" -> "client_id"
      [] k = "ClientSecret" -> "client_secret"
      [] k = "AuthorityId" -> "tenant_id"
      [] k = "SasKey" -> "sas_key"
      [] k = "Token" -> "bearer_token"
      [] k = "UseEmulator" -> "use_emulator"

InitWrites ==
    /\ pc = "builder"
    /\ builder = BuilderDefault
    /\ result = None
    /\ set_after_url = FALSE
    /\ calls = 0
    /\ writes = <<>>
    /\ args = None
    /\ NoUpload

\* a setter returned builder b, having written entries
Wrote(op, b, entries) ==
    /\ pc = "builder"
    /\ calls < MaxWrites
    /\ calls' = calls + 1
    /\ builder' = b
    /\ writes' = writes \o entries
    /\ ret' = Some([op |-> op])
    /\ UNCHANGED <<pc, result, set_after_url, inflight, blocks, requests,
                   completed_parts, blob, aborted, args>>

Written(field, value) == [field |-> field, via |-> "setter", value |-> value]

WriteAccount ==
    \E v \in WriteValues :
        Wrote("with_account", with_account(builder, v), <<Written("account_name", v)>>)
WriteAccessKey ==
    \E v \in WriteValues :
        Wrote("with_access_key", with_access_key(builder, v), <<Written("access_key", v)>>)
WriteBearerToken ==
    \E v \in WriteValues :
        Wrote("with_bearer_token_authorization", with_bearer_token_authorization(builder, v),
              <<Written("bearer_token", v)>>)
WriteClientSecret ==
    \E v \in WriteValues :
        Wrote("with_client_secret_authorization",
              with_client_secret_authorization(builder, v, v, v),
              <<Written("client_id", v), Written("client_secret", v), Written("tenant_id", v)>>)
WriteUseEmulator ==
    \E f \in BOOLEAN :
        Wrote("with_use_emulator", with_use_emulator(builder, f),
              <<Written("use_emulator", IF f THEN "true" ELSE "false")>>)

\* try_with_option under any documented alias: a write when the key
\* resolves, the error and no builder otherwise
WriteOption ==
    /\ pc = "builder"
    /\ calls < MaxWrites
    /\ calls' = calls + 1
    /\ \E key \in AllDocumentedAliases :
       \E value \in (IF key \in DocumentedAliases("UseEmulator") THEN WriteFlags
                     ELSE WriteValues) :
        /\ ret' = Some([op |-> "try_with_option", key |-> key])
        /\ IF IsOk(try_with_option(builder, key, value))
           THEN /\ builder' = try_with_option(builder, key, value).val
                /\ writes' = Append(writes, [field |-> FieldOf(from_str(key).val),
                                             via |-> "option", value |-> value])
                /\ UNCHANGED <<pc, result>>
           ELSE /\ pc' = "failed"
                /\ result' = Some(try_with_option(builder, key, value))
                /\ UNCHANGED <<builder, writes>>
    /\ UNCHANGED <<set_after_url, inflight, blocks, requests, completed_parts, blob, aborted,
                   args>>

NextWrites ==
    \/ WriteAccount \/ WriteAccessKey \/ WriteBearerToken \/ WriteClientSecret
    \/ WriteUseEmulator \/ WriteOption

SpecWrites == InitWrites /\ [][NextWrites]_vars

\* the positions of the writes to a field
WritesTo(field) == {i \in 1..Len(writes) : writes[i].field = field}

\* the last write to a field
LastWrite(field) ==
    writes[CHOOSE i \in WritesTo(field) : \A j \in WritesTo(field) : j <= i]

\* what a field holds after write w and nothing else: an option writes the
\* flag through its truthy reading
Held(w) ==
    IF w.field = "use_emulator"
    THEN IF w.via = "option" THEN w.value \in {"1", "true", "on", "yes", "y"}
         ELSE w.value = "true"
    ELSE Some(w.value)

---------------------------------------------------------------------------
(* The split_sas program: one call of split_sas on one string *)

\* longest input, in tokens
MaxSasTokens == 3

\* the pieces the inputs are made of: separators, a blank, pairs, a lone
\* key, percent-encoded '=' and '&', a byte that is no UTF-8, a bare '%'
SasTokens == {"?", "&", "=", " ", "k", "a=1", "b=2", "%3D", "%26", "%FF", "%"}

RECURSIVE TokenSeqs(_)
\* the sequences of at most n tokens
TokenSeqs(n) ==
    IF n = 0 THEN {<<>>}
    ELSE TokenSeqs(n - 1)
            \cup {Append(t, x) : t \in {u \in TokenSeqs(n - 1) : Len(u) = n - 1}, x \in SasTokens}

RECURSIVE Concat(_)
\* the string made of the tokens
Concat(tokens) == IF Len(tokens) = 0 THEN "" ELSE Head(tokens) \o Concat(Tail(tokens))

InitSas ==
    /\ pc = "split_sas"
    /\ args \in {Some(t) : t \in TokenSeqs(MaxSasTokens)}
    /\ builder = BuilderDefault
    /\ result = None
    /\ set_after_url = FALSE
    /\ calls = 0
    /\ writes = <<>>
    /\ NoUpload

\* split_sas(sas) returns
SplitSas ==
    /\ pc = "split_sas"
    /\ pc' = "returned"
    /\ ret' = Some([op |-> "split_sas", value |-> split_sas(Concat(Unwrap(args)))])
    /\ UNCHANGED <<builder, result, set_after_url, calls, writes, args, inflight, blocks,
                   requests, completed_parts, blob, aborted>>

NextSas == SplitSas

SpecSas == InitSas /\ [][NextSas]_vars

\* what each token stands for once percent-decoded
DecodedToken(t) == CASE t = "%3D" -> "=" [] t = "%26" -> "&" [] OTHER -> t

\* the decoded input of the call, when every token decodes
SasDecoded == Concat([i \in 1..Len(Unwrap(args)) |-> DecodedToken(Unwrap(args)[i])])
SasUndecodable == \E i \in 1..Len(Unwrap(args)) : Unwrap(args)[i] = "%FF"

\* d without its leading question marks
RefStripped(d) ==
    SubSeq(d, 1 + Cardinality({i \in 1..Len(d) : \A j \in 1..i : SubSeq(d, j, j) = "?"}),
           Len(d))

\* the positions that bound the segments of e: its ends and its ampersands
RefCuts(e) == {0, Len(e) + 1} \cup {i \in 1..Len(e) : SubSeq(e, i, i) = "&"}

\* the k-th cut from the left
RefCut(e, k) == CHOOSE c \in RefCuts(e) : Cardinality({x \in RefCuts(e) : x < c}) = k - 1

\* the segments of e, left to right
RefSegments(e) ==
    [k \in 1..(Cardinality(RefCuts(e)) - 1) |-> SubSeq(e, RefCut(e, k) + 1, RefCut(e, k + 1) - 1)]

RefBlank(seg) == \A i \in 1..Len(seg) : SubSeq(seg, i, i) = " "
RefNonBlank(e) == SelectSeq(RefSegments(e), LAMBDA seg : ~ RefBlank(seg))

\* seg from its first to its last character that is no blank
RefTrimmed(seg) ==
    LET solid == {i \in 1..Len(seg) : SubSeq(seg, i, i) # " "}
    IN  SubSeq(seg, CHOOSE i \in solid : \A j \in solid : i <= j,
               CHOOSE i \in solid : \A j \in solid : j <= i)

RefHasEq(seg) == \E i \in 1..Len(seg) : SubSeq(seg, i, i) = "="

\* seg cut at its first '='
RefPair(seg) ==
    LET eq == CHOOSE i \in 1..Len(seg) :
                    /\ SubSeq(seg, i, i) = "="
                    /\ \A j \in 1..(i - 1) : SubSeq(seg, j, j) # "="
    IN  <<SubSeq(seg, 1, eq - 1), SubSeq(seg, eq + 1, Len(seg))>>

SasReturned == pc = "returned" /\ IsSome(ret) /\ Unwrap(ret).op = "split_sas"

\* C12 as stated: the pairs are the non-blank segments of the decoded input,
\* each cut at its first '=' as it stands
Orig_C12 ==
    (SasReturned /\ ~ SasUndecodable) =>
        LET segs == RefNonBlank(RefStripped(SasDecoded))
        IN  Unwrap(ret).value =
                IF \E k \in 1..Len(segs) : ~ RefHasEq(segs[k])
                THEN Err([kind |-> "MissingSasComponent"])
                ELSE Ok([k \in 1..Len(segs) |-> RefPair(segs[k])])

\* C12: split_sas percent-decodes the whole input, drops the leading question
\* marks, cuts at every '&', skips the blank segments, strips the blanks
\* around each remaining segment and cuts it at its first '='; the pairs come
\* in input order, and one non-blank segment without '=' fails the whole call
\* with MissingSasComponent, an input that is no UTF-8 with DecodeSasKey
Thm_C12 ==
    SasReturned =>
        LET segs == RefNonBlank(RefStripped(SasDecoded))
        IN  Unwrap(ret).value =
                IF SasUndecodable THEN Err([kind |-> "DecodeSasKey"])
                ELSE IF \E k \in 1..Len(segs) : ~ RefHasEq(segs[k])
                THEN Err([kind |-> "MissingSasComponent"])
                ELSE Ok([k \in 1..Len(segs) |-> RefPair(RefTrimmed(segs[k]))])

\* " a=1%3D" gives the one pair ("a", "1="): the blank is stripped, the
\* encoded '=' decoded before the cut at the first '='
Wit_C12 ==
    /\ SasReturned
    /\ args = Some(<<" ", "a=1", "%3D">>)
    /\ Unwrap(ret).value = Ok(<< <<"a", "1=">> >>)

---------------------------------------------------------------------------
(* The parse_url program: one call of parse_url on one builder *)

UrlSchemes == {"az", "adl", "azure", "abfs", "abfss", "https", "http", "mailto"}
\* nothing, a file system, a dotted file system, a file system and a password
UrlUserinfos == {"", "file_system", "file_system.bar", "file_system:pw"}
UrlHostNames == {"container", "account.foo"}
UrlHostSuffixes == {"", ".dfs.core.windows.net", ".blob.core.windows.net", ".mydomain"}
UrlPaths == {"", "/", "/path", "/a.b/c@d"}

\* the URLs by their parts; the host may be empty when there is no userinfo
UrlParts ==
    {[scheme |-> s, userinfo |-> u, name |-> n, suffix |-> x, path |-> p] :
        s \in UrlSchemes, u \in UrlUserinfos, n \in UrlHostNames, x \in UrlHostSuffixes,
        p \in UrlPaths}
    \cup {[scheme |-> s, userinfo |-> "", name |-> "", suffix |-> "", path |-> p] :
            s \in UrlSchemes, p \in UrlPaths}

\* the string of a URL
UrlString(a) ==
    a.scheme \o "://" \o (IF a.userinfo = "" THEN "" ELSE a.userinfo \o "@")
        \o a.name \o a.suffix \o a.path

\* a builder whose every field has been set
BuilderPopulated ==
    [account_name |-> Some("old-account"), access_key |-> Some("key"),
     container_name |-> Some("old-container"), bearer_token |-> Some("tok"),
     client_id |-> Some("id"), client_secret |-> Some("secret"),
     tenant_id |-> Some("tenant"), sas_query_pairs |-> Some(<< <<"sv", "1">> >>),
     sas_key |-> Some("sv=1"), authority_host |-> Some("https://login.example"),
     url |-> None, use_emulator |-> TRUE, retry_config |-> "custom",
     client_options |-> [allow_http |-> TRUE, proxy_url |-> Some("http://proxy")]]

InitUrl ==
    /\ pc = "parse_url"
    /\ builder \in {BuilderDefault, BuilderPopulated}
    /\ \E a \in UrlParts : args = Some([url |-> a, before |-> builder])
    /\ result = None
    /\ set_after_url = FALSE
    /\ calls = 0
    /\ writes = <<>>
    /\ NoUpload

\* builder.parse_url(url) returns
ParseUrl ==
    /\ pc = "parse_url"
    /\ pc' = "returned"
    /\ builder' = parse_url(builder, UrlString(Unwrap(args).url)).b
    /\ ret' = Some([op |-> "parse_url",
                    value |-> parse_url(builder, UrlString(Unwrap(args).url)).r])
    /\ UNCHANGED <<result, set_after_url, calls, writes, args, inflight, blocks, requests,
                   completed_parts, blob, aborted>>

NextUrl == ParseUrl

SpecUrl == InitUrl /\ [][NextUrl]_vars

UrlReturned == pc = "returned" /\ IsSome(ret) /\ Unwrap(ret).op = "parse_url"
\* the URL of the call by its parts, and the builder before the call
TheUrl == Unwrap(args).url
Before == Unwrap(args).before
UrlValue == Unwrap(ret).value

UrlHost == TheUrl.name \o TheUrl.suffix
\* the user name of the userinfo: what precedes the password
UrlUser ==
    CASE TheUrl.userinfo = "file_system:pw" -> "file_system"
      [] OTHER -> TheUrl.userinfo
Dotted(name) == name \in {"account.foo", "file_system.bar"}
DottedHost == TheUrl.suffix # "" \/ Dotted(TheUrl.name)

\* the four recognised shapes of a URL, by its parts
IsContainerUrl ==
    /\ \/ TheUrl.scheme \in {"az", "adl", "azure"}
       \/ TheUrl.scheme \in {"abfs", "abfss"} /\ TheUrl.userinfo = ""
    /\ UrlHost # "" /\ ~ DottedHost
IsFileSystemUrl ==
    /\ TheUrl.scheme \in {"abfs", "abfss"}
    /\ TheUrl.userinfo # "" /\ ~ Dotted(UrlUser)
    /\ TheUrl.suffix = ".dfs.core.windows.net" /\ ~ Dotted(TheUrl.name)
IsAccountUrl ==
    /\ TheUrl.scheme = "https"
    /\ TheUrl.suffix \in {".dfs.core.windows.net", ".blob.core.windows.net"}
    /\ ~ Dotted(TheUrl.name)

\* C13: a container URL sets the container to the host, a file system URL
\* sets the container to the user name and the account to the first label of
\* the host, an https account URL sets the account to the first label of the
\* host; whatever the path, the call succeeds, no other field of the builder
\* changes, and no URL outside these shapes is accepted
Thm_C13 ==
    UrlReturned =>
        /\ IsContainerUrl =>
                /\ IsOk(UrlValue)
                /\ builder = [Before EXCEPT !.container_name = Some(UrlHost)]
        /\ IsFileSystemUrl =>
                /\ IsOk(UrlValue)
                /\ builder = [Before EXCEPT !.container_name = Some(UrlUser),
                                            !.account_name = Some(TheUrl.name)]
        /\ IsAccountUrl =>
                /\ IsOk(UrlValue)
                /\ builder = [Before EXCEPT !.account_name = Some(TheUrl.name)]
        /\ IsOk(UrlValue) => (IsContainerUrl \/ IsFileSystemUrl \/ IsAccountUrl)

\* abfss://file_system@container.dfs.core.windows.net/a.b/c@d on a populated
\* builder: container and account replaced, the rest kept
Wit_C13 ==
    /\ UrlReturned
    /\ TheUrl = [scheme |-> "abfss", userinfo |-> "file_system", name |-> "container",
                 suffix |-> ".dfs.core.windows.net", path |-> "/a.b/c@d"]
    /\ Before = BuilderPopulated
    /\ IsOk(UrlValue)
    /\ builder = [BuilderPopulated EXCEPT !.container_name = Some("file_system"),
                                          !.account_name = Some("container")]

\* the shapes parse_url must refuse, by the parts of the URL
HasDottedName ==
    \/ /\ \/ TheUrl.scheme \in {"az", "adl", "azure"}
          \/ TheUrl.scheme \in {"abfs", "abfss"} /\ TheUrl.userinfo = ""
       /\ DottedHost
    \/ /\ TheUrl.scheme \in {"abfs", "abfss"} /\ TheUrl.userinfo # ""
       /\ TheUrl.suffix = ".dfs.core.windows.net"
       /\ (Dotted(UrlUser) \/ Dotted(TheUrl.name))
    \/ /\ TheUrl.scheme = "https"
       /\ TheUrl.suffix \in {".dfs.core.windows.net", ".blob.core.windows.net"}
       /\ Dotted(TheUrl.name)
HasForeignHost ==
    \/ /\ TheUrl.scheme = "https"
       /\ \/ TheUrl.suffix \notin {".dfs.core.windows.net", ".blob.core.windows.net"}
          \/ Dotted(TheUrl.name)
    \/ /\ TheUrl.scheme \in {"abfs", "abfss"} /\ TheUrl.userinfo # ""
       /\ TheUrl.suffix # ".dfs.core.windows.net"
HasForeignScheme == TheUrl.scheme \notin {"az", "adl", "azure", "abfs", "abfss", "https"}

\* C14: a URL with a host whose extracted name is dotted, whose https host
\* is not <account>.dfs.core.windows.net or <account>.blob.core.windows.net,
\* whose abfs host after a user name lacks .dfs.core.windows.net, or whose
\* scheme is foreign, is refused: with UnknownUrlScheme for a foreign scheme,
\* UrlNotRecognised otherwise; the account is left as it was and the
\* container is left as it was or holds the user name the URL carries
Thm_C14 ==
    (UrlReturned /\ UrlHost # "" /\ (HasDottedName \/ HasForeignHost \/ HasForeignScheme)) =>
        /\ IsErr(UrlValue)
        /\ AzureKind(UrlValue.val) =
                IF HasForeignScheme THEN "UnknownUrlScheme" ELSE "UrlNotRecognised"
        /\ builder.account_name = Before.account_name
        /\ builder.container_name \in {Before.container_name, Some(UrlUser)}
        /\ [builder EXCEPT !.container_name = None] = [Before EXCEPT !.container_name = None]

\* az://container.mydomain/ on a fresh builder is refused as not recognised
\* and names nothing
Wit_C14 ==
    /\ UrlReturned
    /\ TheUrl = [scheme |-> "az", userinfo |-> "", name |-> "container",
                 suffix |-> ".mydomain", path |-> "/"]
    /\ IsErr(UrlValue) /\ AzureKind(UrlValue.val) = "UrlNotRecognised"
    /\ builder = BuilderDefault

\* C17 as stated: every URL accepted on a fresh builder sets the container name
Orig_C17 ==
    (UrlReturned /\ Before = BuilderDefault /\ IsOk(UrlValue)) =>
        IsSome(builder.container_name)

\* C17: a URL accepted on a fresh builder sets the container name when its
\* scheme is az, adl, azure, abfs or abfss; an accepted https URL sets the
\* account name only and leaves the container name unset
Thm_C17 ==
    (UrlReturned /\ Before = BuilderDefault /\ IsOk(UrlValue)) =>
        /\ TheUrl.scheme \in {"az", "adl", "azure", "abfs", "abfss", "https"}
        /\ TheUrl.scheme # "https" => IsSome(builder.container_name)
        /\ TheUrl.scheme = "https" =>
                IsNone(builder.container_name) /\ IsSome(builder.account_name)

\* https://container.blob.core.windows.net/path is accepted on a fresh
\* builder and leaves it without a container name
Wit_C17 ==
    /\ UrlReturned
    /\ Before = BuilderDefault
    /\ TheUrl = [scheme |-> "https", userinfo |-> "", name |-> "container",
                 suffix |-> ".blob.core.windows.net", path |-> "/path"]
    /\ IsOk(UrlValue)
    /\ builder = [BuilderDefault EXCEPT !.account_name = Some("container")]

---------------------------------------------------------------------------
(* The configuration of a successful build *)

\* C15 as stated: a successful build yields a configuration whose account
\* and container are not empty and whose service endpoint is a parsed URL
\* with a host
Orig_C15 ==
    (BuildReturned /\ IsOk(BuildResult)) =>
        /\ BuildResult.val.account # ""
        /\ BuildResult.val.container # ""
        /\ IsSome(BuildResult.val.service.host)

---------------------------------------------------------------------------
(* MicrosoftAzure::head *)

Weekdays == {"Mon", "Tue", "Wed", "Thu", "Fri", "Sat", "Sun"}
Months == <<"Jan", "Feb", "Mar", "Apr", "May", "Jun", "Jul", "Aug", "Sep", "Oct", "Nov", "Dec">>

AllDigits(s) == Len(s) > 0 /\ \A i \in 1..Len(s) : Contains(Digits, Char(s, i))

\* Utc.datetime_from_str(s, RFC1123_FMT) with RFC1123_FMT = "%a, %d %h %Y %T GMT",
\* on timestamps written with two-digit fields: the fields of the timestamp,
\* or a ParseError
datetime_from_str(s) ==
    IF /\ Len(s) = 29
       /\ SubSeq(s, 1, 3) \in Weekdays /\ SubSeq(s, 4, 5) = ", "
       /\ AllDigits(SubSeq(s, 6, 7)) /\ Char(s, 8) = " "
       /\ (\E m \in 1..12 : Months[m] = SubSeq(s, 9, 11)) /\ Char(s, 12) = " "
       /\ AllDigits(SubSeq(s, 13, 16)) /\ Char(s, 17) = " "
       /\ AllDigits(SubSeq(s, 18, 19)) /\ Char(s, 20) = ":"
       /\ AllDigits(SubSeq(s, 21, 22)) /\ Char(s, 23) = ":"
       /\ AllDigits(SubSeq(s, 24, 25)) /\ SubSeq(s, 26, 29) = " GMT"
    THEN Ok([year |-> ParseDecimal(SubSeq(s, 13, 16)),
             month |-> CHOOSE m \in 1..12 : Months[m] = SubSeq(s, 9, 11),
             day |-> ParseDecimal(SubSeq(s, 6, 7)),
             hour |-> ParseDecimal(SubSeq(s, 18, 19)),
             minute |-> ParseDecimal(SubSeq(s, 21, 22)),
             second |-> ParseDecimal(SubSeq(s, 24, 25))])
    ELSE Err("ParseError")

\* str::parse::<usize>: decimal digits after an optional '+'
parse_usize(s) ==
    IF AllDigits(s) THEN Ok(ParseDecimal(s))
    ELSE IF Len(s) > 1 /\ Char(s, 1) = "+" /\ AllDigits(Tail(s)) THEN Ok(ParseDecimal(Tail(s)))
    ELSE Err("ParseIntError")

\* HeaderValue::to_str().context(BadHeaderSnafu): the text of a header made
\* of visible ASCII
to_str(header) ==
    IF header.ascii THEN Ok(header.text)
    ELSE Err(ErrorFrom([kind |-> "BadHeader"]))

\* a mutant of parse_content_length: a length that does not parse counts as 0
parse_content_length_defaulted(content_length) ==
    IF IsErr(parse_usize(content_length)) THEN Ok(0) ELSE parse_usize(content_length)

\* content_length.parse().context(InvalidContentLengthSnafu { content_length })
parse_content_length(content_length) ==
    IF IsErr(parse_usize(content_length))
    THEN Err(ErrorFrom([kind |-> "InvalidContentLength", content_length |-> content_length,
                        source |-> parse_usize(content_length).val]))
    ELSE parse_usize(content_length)

\* Utc.datetime_from_str(..).context(InvalidLastModifiedSnafu { last_modified })
parse_last_modified(last_modified) ==
    IF IsErr(datetime_from_str(last_modified))
    THEN Err(ErrorFrom([kind |-> "InvalidLastModified", last_modified |-> last_modified,
                        source |-> datetime_from_str(last_modified).val]))
    ELSE datetime_from_str(last_modified)

\* head once both headers are parsed
head_meta(location, last_modified, size) ==
    IF IsErr(size) THEN size
    ELSE Ok([location |-> location, last_modified |-> last_modified.val, size |-> size.val])

\* head from the Content-Length header on
head_content_length(location, last_modified, headers) ==
    IF IsErr(last_modified) THEN last_modified
    ELSE IF IsNone(headers.content_length)
    THEN Err(ErrorFrom([kind |-> "MissingContentLength"]))
    ELSE IF IsErr(to_str(Unwrap(headers.content_length)))
    THEN to_str(Unwrap(headers.content_length))
    ELSE head_meta(location, last_modified,
                   parse_content_length(to_str(Unwrap(headers.content_length)).val))

\* head from the Last-Modified header on
head_last_modified(location, headers) ==
    IF IsNone(headers.last_modified) THEN Err(ErrorFrom([kind |-> "MissingLastModified"]))
    ELSE IF IsErr(to_str(Unwrap(headers.last_modified)))
    THEN to_str(Unwrap(headers.last_modified))
    ELSE head_content_length(location,
                             parse_last_modified(to_str(Unwrap(headers.last_modified)).val),
                             headers)

\* head(&self, location): response is what get_request returned
head(location, response) ==
    IF IsErr(response) THEN response ELSE head_last_modified(location, response.val)

Header(text) == Some([text |-> text, ascii |-> TRUE])
\* a header value holding a byte that is no visible ASCII
OpaqueHeader == Some([text |-> "", ascii |-> FALSE])

LastModifiedHeaders ==
    {None, OpaqueHeader, Header("Wed, 04 Jan 2023 17:48:57 GMT"),
     Header("Sat, 29 Feb 2020 00:00:09 GMT"), Header("2023-01-04T17:48:57Z"),
     Header("Wed, 04 Jan 2023 17:48:57"), Header("")}
ContentLengthHeaders ==
    {None, OpaqueHeader, Header("0"), Header("42"), Header("+7"), Header("-1"),
     Header("4 2"), Header("12abc"), Header("")}
\* what get_request returns: the headers of a response, or the request fails
Responses ==
    {Ok([last_modified |-> l, content_length |-> c]) :
        l \in LastModifiedHeaders, c \in ContentLengthHeaders}
    \cup {Err([kind |-> "Generic", store |-> STORE, source |-> [kind |-> "Client"]])}

InitHead ==
    /\ pc = "head"
    /\ \E location \in Locations, response \in Responses :
            args = Some([location |-> location, response |-> response])
    /\ builder = BuilderDefault
    /\ result = None
    /\ set_after_url = FALSE
    /\ calls = 0
    /\ writes = <<>>
    /\ NoUpload

\* head(location) returns
Head_ ==
    /\ pc = "head"
    /\ pc' = "returned"
    /\ ret' = Some([op |-> "head",
                    value |-> head(Unwrap(args).location, Unwrap(args).response)])
    /\ UNCHANGED <<builder, result, set_after_url, calls, writes, args, inflight, blocks,
                   requests, completed_parts, blob, aborted>>

NextHead == Head_

SpecHead == InitHead /\ [][NextHead]_vars

HeadReturned == pc = "returned" /\ IsSome(ret) /\ Unwrap(ret).op = "head"
HeadValue == Unwrap(ret).value
Response == Unwrap(args).response

\* the timestamps and lengths among the header values that are well formed,
\* and what they denote
Timestamps ==
    [text \in {"Wed, 04 Jan 2023 17:48:57 GMT", "Sat, 29 Feb 2020 00:00:09 GMT"} |->
        IF text = "Wed, 04 Jan 2023 17:48:57 GMT"
        THEN [year |-> 2023, month |-> 1, day |-> 4, hour |-> 17, minute |-> 48, second |-> 57]
        ELSE [year |-> 2020, month |-> 2, day |-> 29, hour |-> 0, minute |-> 0, second |-> 9]]
Lengths == [text \in {"0", "42", "+7"} |-> CASE text = "0" -> 0 [] text = "42" -> 42 [] text = "+7" -> 7]

Readable(h) == IsSome(h) /\ Unwrap(h).ascii
WellFormed(h, table) == Readable(h) /\ Unwrap(h).text \in DOMAIN table
Malformed(h, table) == Readable(h) /\ Unwrap(h).text \notin DOMAIN table

\* C16: head returns Ok exactly when the response carries a well-formed
\* Last-Modified and a well-formed Content-Length, and then reports that
\* timestamp and that size; a missing Last-Modified, a malformed one, a
\* missing Content-Length and a malformed one (the Last-Modified being
\* well formed) are reported as four different errors
Thm_C16 ==
    (HeadReturned /\ IsOk(Response)) =>
        LET l == Response.val.last_modified
            c == Response.val.content_length
        IN  /\ IsOk(HeadValue) <=> (WellFormed(l, Timestamps) /\ WellFormed(c, Lengths))
            /\ IsOk(HeadValue) =>
                    HeadValue.val = [location |-> Unwrap(args).location,
                                     last_modified |-> Timestamps[Unwrap(l).text],
                                     size |-> Lengths[Unwrap(c).text]]
            /\ IsNone(l) => IsErr(HeadValue) /\ AzureKind(HeadValue.val) = "MissingLastModified"
            /\ Malformed(l, Timestamps) =>
                    IsErr(HeadValue) /\ AzureKind(HeadValue.val) = "InvalidLastModified"
            /\ (WellFormed(l, Timestamps) /\ IsNone(c)) =>
                    IsErr(HeadValue) /\ AzureKind(HeadValue.val) = "MissingContentLength"
            /\ (WellFormed(l, Timestamps) /\ Malformed(c, Lengths)) =>
                    IsErr(HeadValue) /\ AzureKind(HeadValue.val) = "InvalidContentLength"

\* a response with a good Last-Modified and the Content-Length "12abc" is
\* refused with InvalidContentLength
Wit_C16 ==
    /\ HeadReturned
    /\ Response = Ok([last_modified |-> Header("Wed, 04 Jan 2023 17:48:57 GMT"),
                      content_length |-> Header("12abc")])
    /\ IsErr(HeadValue) /\ AzureKind(HeadValue.val) = "InvalidContentLength"

---------------------------------------------------------------------------
(* MicrosoftAzureBuilder::from_env *)

UpperCase == "ABCDEFGHIJKLMNOPQRSTUVWXYZ"
LowerCase == "abcdefghijklmnopqrstuvwxyz"

RECURSIVE to_ascii_lowercase(_)
\* str::to_ascii_lowercase
to_ascii_lowercase(s) ==
    IF Len(s) = 0 THEN ""
    ELSE (IF Contains(UpperCase, Char(s, 1))
          THEN Char(LowerCase, Find(UpperCase, Char(s, 1)))
          ELSE Char(s, 1)) \o to_ascii_lowercase(Tail(s))

\* builder.try_with_option(config_key, value).unwrap(): the key goes in by
\* its as_ref name; a refusal would panic
try_with_config_key(b, config_key, value) ==
    IF IsErr(try_with_option(b, as_ref(config_key), value)) THEN Err("panic")
    ELSE try_with_option(b, as_ref(config_key), value)

\* a mutant of from_env_var: a prefixed variable that is no alias is an error
from_env_var_strict(b, var) ==
    IF var.unicode /\ starts_with(var.key, "AZURE_")
    THEN IF IsOk(from_str(to_ascii_lowercase(var.key)))
         THEN try_with_config_key(b, from_str(to_ascii_lowercase(var.key)).val, var.value)
         ELSE from_str(to_ascii_lowercase(var.key))
    ELSE Ok(b)

\* the body of the loop of from_env for one variable of the environment
from_env_var(b, var) ==
    IF var.unicode /\ starts_with(var.key, "AZURE_")
          /\ IsOk(from_str(to_ascii_lowercase(var.key)))
    THEN try_with_config_key(b, from_str(to_ascii_lowercase(var.key)).val, var.value)
    ELSE Ok(b)

RECURSIVE from_env_vars(_, _)
\* the loop of from_env over std::env::vars_os()
from_env_vars(b, env) ==
    IF IsErr(b) \/ Len(env) = 0 THEN b
    ELSE from_env_vars(from_env_var(b.val, Head(env)), Tail(env))

\* std::env::var(name): the value of the variable when it is set and Unicode
env_var(env, name) ==
    IF \E i \in 1..Len(env) : env[i].key = name /\ env[i].unicode
    THEN Ok(env[CHOOSE i \in 1..Len(env) : env[i].key = name].value)
    ELSE Err("VarError")

\* if let Ok(text) = std::env::var("AZURE_ALLOW_HTTP") { .. }
from_env_allow_http(b, text) ==
    IF IsErr(b) \/ IsErr(text) THEN b
    ELSE Ok([b.val EXCEPT !.client_options.allow_http = str_is_truthy(text.val)])

\* from_env() in an environment holding the variables env, in the order vars_os yields them
from_env(env) ==
    from_env_allow_http(from_env_vars(Ok(BuilderDefault), env),
                        env_var(env, "AZURE_ALLOW_HTTP"))

\* most variables in the environment
MaxEnvVars == 2

EnvKeys ==
    {"AZURE_STORAGE_ACCOUNT_NAME", "AZURE_STORAGE_ACCESS_KEY", "AZURE_CLIENT_ID",
     "AZURE_STORAGE_USE_EMULATOR", "AZURE_ALLOW_HTTP", "AZURE_STORAGE_ACCOUNT_NAM",
     "azure_storage_token", "ACCOUNT_NAME"}
EnvTexts == {"true", "0"}
EnvVars == [key : EnvKeys, value : EnvTexts, unicode : BOOLEAN]

RECURSIVE Environments(_)
\* the environments of at most n variables, no name twice
Environments(n) ==
    IF n = 0 THEN {<<>>}
    ELSE Environments(n - 1)
            \cup {Append(e, v) : e \in {x \in Environments(n - 1) : Len(x) = n - 1},
                                 v \in EnvVars}
RECURSIVE DistinctKeys(_)
DistinctKeys(e) ==
    \/ Len(e) = 0
    \/ /\ \A i \in 2..Len(e) : e[i].key # e[1].key
       /\ DistinctKeys(Tail(e))

InitEnv ==
    /\ pc = "from_env"
    /\ args \in {Some(e) : e \in {x \in Environments(MaxEnvVars) : DistinctKeys(x)}}
    /\ builder = BuilderDefault
    /\ result = None
    /\ set_after_url = FALSE
    /\ calls = 0
    /\ writes = <<>>
    /\ NoUpload

\* MicrosoftAzureBuilder::from_env() returns
FromEnv ==
    /\ pc = "from_env"
    /\ pc' = "returned"
    /\ ret' = Some([op |-> "from_env", value |-> from_env(Unwrap(args))])
    /\ builder' = IF IsOk(from_env(Unwrap(args))) THEN from_env(Unwrap(args)).val ELSE builder
    /\ UNCHANGED <<result, set_after_url, calls, writes, args, inflight, blocks, requests,
                   completed_parts, blob, aborted>>

NextEnv == FromEnv

SpecEnv == InitEnv /\ [][NextEnv]_vars

EnvReturned == pc = "returned" /\ IsSome(ret) /\ Unwrap(ret).op = "from_env"
Environment == Unwrap(args)

\* the field each variable of EnvKeys is read into; the others are read into none
EnvFields ==
    [key \in {"AZURE_STORAGE_ACCOUNT_NAME", "AZURE_STORAGE_ACCESS_KEY", "AZURE_CLIENT_ID",
              "AZURE_STORAGE_USE_EMULATOR"} |->
        CASE key = "AZURE_STORAGE_ACCOUNT_NAME" -> "account_name"
          [] key = "AZURE_STORAGE_ACCESS_KEY" -> "access_key"
          [] key = "AZURE_CLIENT_ID" -> "client_id"
          [] key = "AZURE_STORAGE_USE_EMULATOR" -> "use_emulator"]

\* the variables with the prefix that name no configuration key
Unrecognised ==
    {i \in 1..Len(Environment) :
        /\ Environment[i].unicode
        /\ Environment[i].key \in {"AZURE_ALLOW_HTTP", "AZURE_STORAGE_ACCOUNT_NAM"}}

\* C18 as stated: a variable with the prefix whose lower-cased name is no
\* alias makes from_env report an unknown-key error
Orig_C18 ==
    (EnvReturned /\ Unrecognised # {}) =>
        /\ IsErr(Unwrap(ret).value)
        /\ Unwrap(ret).value.val.kind = "UnknownConfigurationKey"

\* the value a field takes from the environment, by the default d
FromEnvironment(field, d) ==
    LET at == {i \in 1..Len(Environment) :
                    /\ Environment[i].unicode
                    /\ Environment[i].key \in DOMAIN EnvFields
                    /\ EnvFields[Environment[i].key] = field}
    IN  IF at = {} THEN d
        ELSE LET text == Environment[CHOOSE i \in at : TRUE].value
             IN  IF field = "use_emulator" THEN text = "true" ELSE Some(text)

\* C18: from_env reports nothing: it always returns a builder, filled from
\* the variables with the prefix AZURE_ whose lower-cased name is an alias
\* and from AZURE_ALLOW_HTTP; every other variable, with the prefix or not,
\* is skipped and leaves the builder as it is
Thm_C18 ==
    EnvReturned =>
        /\ IsOk(Unwrap(ret).value)
        /\ builder = Unwrap(ret).value.val
        /\ \A field \in DOMAIN BuilderDefault \ {"client_options"} :
                builder[field] = FromEnvironment(field, BuilderDefault[field])
        /\ builder.client_options.proxy_url = None
        /\ builder.client_options.allow_http =
                \E i \in 1..Len(Environment) :
                    /\ Environment[i].key = "AZURE_ALLOW_HTTP"
                    /\ Environment[i].unicode /\ Environment[i].value = "true"

\* with AZURE_STORAGE_ACCOUNT_NAM and AZURE_STORAGE_ACCOUNT_NAME set, from_env
\* returns a builder holding the account and says nothing of the other
Wit_C18 ==
    /\ EnvReturned
    /\ Environment = <<[key |-> "AZURE_STORAGE_ACCOUNT_NAM", value |-> "true", unicode |-> TRUE],
                       [key |-> "AZURE_STORAGE_ACCOUNT_NAME", value |-> "0", unicode |-> TRUE]>>
    /\ Unwrap(ret).value = Ok([BuilderDefault EXCEPT !.account_name = Some("0")])

---------------------------------------------------------------------------
(* A SAS key that split_sas refuses, at build *)

\* the builder holds a SAS key with a segment that has no '='
HoldsMalformedSas == IsSome(Resolved.sas_key) /\ Unwrap(Resolved.sas_key) = "sv=1&sig"

SasErrors == {"MissingSasComponent", "DecodeSasKey"}
FailedOnSas == IsErr(BuildResult) /\ AzureKind(BuildResult.val) \in SasErrors

\* C19 as stated: build fails with the SAS error whenever the builder holds
\* a malformed SAS key
Orig_C19 == (BuildReturned /\ HoldsMalformedSas) => FailedOnSas

\* C19: a malformed SAS key fails build, with MissingSasComponent, exactly
\* when build comes to read it: in normal mode, with the URL, the container
\* and the account in order, and with no bearer token, no access key, no
\* complete client-secret triple and no SAS pair list set; in every other
\* case the SAS key is not read and build returns what it returns without it
Thm_C19 ==
    (BuildReturned /\ HoldsMalformedSas) =>
        /\ FailedOnSas <=>
                /\ NormalResolved
                /\ IsNone(Resolved.bearer_token) /\ IsNone(Resolved.access_key)
                /\ ~ HasTriple(Resolved) /\ IsNone(Resolved.sas_query_pairs)
        /\ FailedOnSas => AzureKind(BuildResult.val) = "MissingSasComponent"
        /\ ~ FailedOnSas =>
                \E env_value \in EnvValues, client_ok \in BOOLEAN :
                    BuildResult = build([builder EXCEPT !.sas_key = None], env_value, client_ok)

\* account, container, access key and the SAS key "sv=1&sig": build succeeds
\* on the access key
Wit_C19 ==
    /\ BuildReturned /\ HoldsMalformedSas
    /\ NormalResolved
    /\ IsOk(BuildResult)
    /\ BuildResult.val.credentials = AccessKey("key")

---------------------------------------------------------------------------
(* MicrosoftAzure::list_with_delimiter *)

RECURSIVE PathLess(_, _)
\* Ord for Path: the order of the raw strings, byte by byte
PathLess(a, b) ==
    IF Len(b) = 0 THEN FALSE
    ELSE IF Len(a) = 0 THEN TRUE
    ELSE IF Char(a, 1) = Char(b, 1) THEN PathLess(Tail(a), Tail(b))
    ELSE AsciiCode(Char(a, 1)) < AsciiCode(Char(b, 1))

\* a mutant of btree_insert: the value is pushed at the end, as on a Vec
btree_insert_pushing(set, x) == Append(set, x)

RECURSIVE btree_insert(_, _)
\* BTreeSet::insert on the set kept as its ascending sequence
btree_insert(set, x) ==
    IF Len(set) = 0 THEN <<x>>
    ELSE IF Head(set) = x THEN set
    ELSE IF PathLess(x, Head(set)) THEN <<x>> \o set
    ELSE <<Head(set)>> \o btree_insert(Tail(set), x)

RECURSIVE btree_extend(_, _)
\* common_prefixes.extend(items)
btree_extend(set, items) ==
    IF Len(items) = 0 THEN set
    ELSE btree_extend(btree_insert(set, Head(items)), Tail(items))

RECURSIVE list_with_delimiter_loop(_, _, _)
\* the while let loop over the pages of the stream, then the ListResult
list_with_delimiter_loop(stream, common_prefixes, objects) ==
    IF Len(stream) = 0
    THEN Ok([common_prefixes |-> common_prefixes, objects |-> objects])
    ELSE IF IsErr(Head(stream)) THEN Head(stream)
    ELSE list_with_delimiter_loop(Tail(stream),
                                  btree_extend(common_prefixes, Head(stream).val.common_prefixes),
                                  objects \o Head(stream).val.objects)

\* list_with_delimiter(prefix): stream is what list_paginated(prefix, true) yields
list_with_delimiter(stream) == list_with_delimiter_loop(stream, <<>>, <<>>)

\* most pages in a listing
MaxPages == 2

PagePrefixes == {<<>>, <<"b/", "a/">>, <<"a/", "B/">>, <<"a/b/", "a/b/">>}
PageObjects == {<<>>, <<"y", "x">>, <<"x">>}
\* a page of the listing, or the request for it failing
Pages ==
    {Ok([common_prefixes |-> p, objects |-> o]) : p \in PagePrefixes, o \in PageObjects}
    \cup {Err([kind |-> "Generic", store |-> STORE, source |-> [kind |-> "Client"]])}

RECURSIVE Streams(_)
\* the listings of at most n pages
Streams(n) ==
    IF n = 0 THEN {<<>>}
    ELSE Streams(n - 1)
            \cup {Append(s, p) : s \in {x \in Streams(n - 1) : Len(x) = n - 1}, p \in Pages}

InitList ==
    /\ pc = "list_with_delimiter"
    /\ args \in {Some(s) : s \in Streams(MaxPages)}
    /\ builder = BuilderDefault
    /\ result = None
    /\ set_after_url = FALSE
    /\ calls = 0
    /\ writes = <<>>
    /\ NoUpload

\* list_with_delimiter(prefix) returns
ListWithDelimiter ==
    /\ pc = "list_with_delimiter"
    /\ pc' = "returned"
    /\ ret' = Some([op |-> "list_with_delimiter", value |-> list_with_delimiter(Unwrap(args))])
    /\ UNCHANGED <<builder, result, set_after_url, calls, writes, args, inflight, blocks,
                   requests, completed_parts, blob, aborted>>

NextList == ListWithDelimiter

SpecList == InitList /\ [][NextList]_vars

ListReturned == pc = "returned" /\ IsSome(ret) /\ Unwrap(ret).op = "list_with_delimiter"
Listing == Unwrap(args)
Listed == Unwrap(ret).value

\* the place of each prefix of the pages in ascending order
PrefixRank == [p \in {"B/", "a/", "a/b/", "b/"} |->
                CASE p = "B/" -> 1 [] p = "a/" -> 2 [] p = "a/b/" -> 3 [] p = "b/" -> 4]

RECURSIVE ObjectsOf(_)
\* the objects of the pages, page after page
ObjectsOf(pages) ==
    IF Len(pages) = 0 THEN <<>>
    ELSE ObjectsOf(SubSeq(pages, 1, Len(pages) - 1)) \o pages[Len(pages)].val.objects

\* C20: when every page of the listing arrives, list_with_delimiter returns
\* the prefixes of all the pages, each once, in ascending order, and the
\* objects of the pages, page after page; when a page fails it returns the
\* error of the first page that failed and no listing
Thm_C20 ==
    ListReturned =>
        LET failed == {i \in 1..Len(Listing) : IsErr(Listing[i])}
        IN  IF failed = {}
            THEN /\ IsOk(Listed)
                 /\ {Listed.val.common_prefixes[i] : i \in 1..Len(Listed.val.common_prefixes)}
                        = UNION {{Listing[k].val.common_prefixes[j] :
                                    j \in 1..Len(Listing[k].val.common_prefixes)} :
                                 k \in 1..Len(Listing)}
                 /\ \A i, j \in 1..Len(Listed.val.common_prefixes) :
                        i < j => PrefixRank[Listed.val.common_prefixes[i]]
                                    < PrefixRank[Listed.val.common_prefixes[j]]
                 /\ Listed.val.objects = ObjectsOf(Listing)
            ELSE Listed = Listing[CHOOSE i \in failed : \A j \in failed : i <= j]

\* two pages sharing the prefix "a/": it is listed once, after "B/" and
\* before "b/", and the objects keep their order
Wit_C20 ==
    /\ ListReturned
    /\ Listing = <<Ok([common_prefixes |-> <<"b/", "a/">>, objects |-> <<"y", "x">>]),
                   Ok([common_prefixes |-> <<"a/", "B/">>, objects |-> <<"x">>])>>
    /\ Listed = Ok([common_prefixes |-> <<"B/", "a/", "b/">>, objects |-> <<"y", "x", "x">>])

---------------------------------------------------------------------------
(* Parts, manifest and the finalize request of one upload *)

\* positions in the request log of the comp=blocklist requests
ManifestRequests == {k \in 1..Len(requests) : IsBlockListRequest(requests[k])}

\* position in the request log of the i-th accepted block upload
NthAccepted(i) ==
    CHOOSE k \in AcceptedBlocks : Cardinality({l \in AcceptedBlocks : l <= k}) = i

\* the last operation to return was put_multipart_part, or complete
PartAnswered == IsSome(ret) /\ Unwrap(ret).op = "put_multipart_part"
CompleteAnswered == IsSome(ret) /\ Unwrap(ret).op = "complete"

\* C21: put_multipart_part returns an UploadPart exactly when its block
\* upload was accepted and an error with no UploadPart when it was refused,
\* so the parts returned are, one for one and in order, the accepted block
\* uploads; every block id of a submitted manifest names a block the provider
\* accepted before the manifest was sent; complete sends one comp=blocklist
\* request, returns Ok exactly when it was accepted, and after a refusal no
\* second manifest is sent and nothing is committed
Thm_C21 ==
    /\ PartAnswered =>
            LET r == Unwrap(ret)
                sent == requests[Len(requests)]
            IN  /\ IsBlockRequest(sent)
                /\ sent.part_idx = r.part_idx
                /\ IsOk(r.val) <=> sent.ok
                /\ IsOk(r.val) =>
                        /\ Len(completed_parts) > 0
                        /\ completed_parts[Len(completed_parts)] = r.val.val
                        /\ QueryValue(sent.request, "blockid") \in DOMAIN blocks
                /\ IsErr(r.val) => r.val.val = "io::Error"
    /\ Len(completed_parts) = Cardinality(AcceptedBlocks)
    /\ \A i \in 1..Len(completed_parts) :
            completed_parts[i].content_id = SpaceFilled(requests[NthAccepted(i)].part_idx)
    /\ \A k \in ManifestRequests :
            /\ Len(requests[k].request.body) = Cardinality({l \in AcceptedBlocks : l < k})
            /\ \A i \in 1..Len(requests[k].request.body) :
                /\ requests[k].request.body[i] \in DOMAIN blocks
                /\ \E l \in AcceptedBlocks :
                    /\ l < k
                    /\ QueryValue(requests[l].request, "blockid") = requests[k].request.body[i]
    /\ Cardinality(ManifestRequests) <= 1
    /\ CompleteAnswered =>
            /\ ManifestRequests = {Len(requests)}
            /\ IsOk(Unwrap(ret).val) <=> requests[Len(requests)].ok
            /\ IsOk(Unwrap(ret).val) <=> pc = "Committed"
            /\ IsErr(Unwrap(ret).val) <=> pc = "Failed"
    /\ \A k \in ManifestRequests :
            IF requests[k].ok
            THEN blob = Some(requests[k].request.body)
            ELSE IsNone(blob) /\ pc = "Failed" /\ k = Len(requests)

\* parts 10 and 7 were both accepted, complete sent the manifest naming the
\* two blocks, the manifest was refused and complete returned the error
Wit_C21 ==
    /\ CompleteAnswered
    /\ IsErr(Unwrap(ret).val)
    /\ Len(requests) = 3
    /\ requests[1].ok /\ requests[1].part_idx = 10
    /\ requests[2].ok /\ requests[2].part_idx = 7
    /\ ~requests[3].ok
    /\ requests[3].request.body
            = <<"ICAgICAgICAgICAgICAgICAgMTA=", "ICAgICAgICAgICAgICAgICAgIDc=">>
    /\ DOMAIN blocks = {"ICAgICAgICAgICAgICAgICAgMTA=", "ICAgICAgICAgICAgICAgICAgIDc="}
    /\ IsNone(blob)

====
